---- MODULE Spec2Model ----
(***************************************************************************)
(* The blog scheduler of scripts/auto_scheduler.py: the persisted          *)
(* scheduler state, the live-data cache, topic selection (dynamic and      *)
(* evergreen), the two-day gate and the run of generate_scheduled_post.    *)
(*                                                                         *)
(* Time is counted in minutes since the midnight that starts day 0.        *)
(* A title is the tuple <<kind, template, word, n>>: an evergreen title is *)
(* variation n of a catalog template, a dynamic title is a title format    *)
(* filled with a title-cased keyword (or, for market_update, with the      *)
(* month n).  The 70 catalog titles are pairwise distinct after            *)
(* lower-casing, and so are their 12-digit md5 prefixes.                   *)
(*                                                                         *)
(* The maintenance scripts scripts/update_manifest.py and                  *)
(* .github/workflows/patch_posts.py work on the HTML files under posts/;   *)
(* they are modelled on the content of those files that they search for.   *)
(***************************************************************************)
EXTENDS Integers, Sequences, FiniteSets, TLC

\* ------------------------------------------------------------------ bounds
MaxNow == 2881
MaxPosts == 2
RecursionLimit == 24
MaxFiles == 2
MaxOffset == 1
MaxTrendPosts == 1

\* --------------------------------------------------------------- constants
MinutesPerHour == 60
HoursPerDay == 24
MinutesPerDay == MinutesPerHour * HoursPerDay
DaysPerMonth == 30
CACHE_MAX_AGE_HOURS == 12
PostIntervalDays == 2
RecentTopicsKept == 20
TrendingKept == 10
TrendsConsidered == 5
FeedItemsKept == 10
NoDate == -1
NoTime == -1
NoStatus == -1

Procs == {1, 2}

\* ---------------------------------------------------------------- helpers
Min(a, b) == IF a <= b THEN a ELSE b

Take(s, n) == SubSeq(s, 1, Min(n, Len(s)))

\* LastN that keeps all of the list
LastNUnbounded(s, n) == s

LastN(s, n) == IF Len(s) <= n THEN s ELSE SubSeq(s, Len(s) - n + 1, Len(s))

Range(s) == {s[i] : i \in 1..Len(s)}

\* ------------------------------------------------- keywords and their case
\* <<keyword, keyword.lower(), keyword.title()>> for every tracked keyword
KeywordCase ==
    <<
    <<"ransomware", "ransomware", "Ransomware">>,
    <<"breach", "breach", "Breach">>,
    <<"vulnerability", "vulnerability", "Vulnerability">>,
    <<"zero-day", "zero-day", "Zero-Day">>,
    <<"phishing", "phishing", "Phishing">>,
    <<"AI", "ai", "Ai">>,
    <<"artificial intelligence", "artificial intelligence", "Artificial Intelligence">>,
    <<"machine learning", "machine learning", "Machine Learning">>,
    <<"cloud", "cloud", "Cloud">>,
    <<"remote work", "remote work", "Remote Work">>,
    <<"hiring", "hiring", "Hiring">>,
    <<"shortage", "shortage", "Shortage">>,
    <<"salary", "salary", "Salary">>,
    <<"certification", "certification", "Certification">>,
    <<"CISO", "ciso", "Ciso">>,
    <<"SOC", "soc", "Soc">>,
    <<"analyst", "analyst", "Analyst">>,
    <<"engineer", "engineer", "Engineer">>,
    <<"skills gap", "skills gap", "Skills Gap">>,
    <<"compliance", "compliance", "Compliance">>,
    <<"regulation", "regulation", "Regulation">>,
    <<"NIST", "nist", "Nist">>,
    <<"zero trust", "zero trust", "Zero Trust">>,
    <<"supply chain", "supply chain", "Supply Chain">>,
    <<"insider threat", "insider threat", "Insider Threat">>,
    <<"IoT", "iot", "Iot">>,
    <<"OT", "ot", "Ot">>,
    <<"ICS", "ics", "Ics">>,
    <<"healthcare", "healthcare", "Healthcare">>,
    <<"finance", "finance", "Finance">>,
    <<"government", "government", "Government">>,
    <<"critical infrastructure", "critical infrastructure", "Critical Infrastructure">>
    >>

TrendingKeywords == [i \in 1..Len(KeywordCase) |-> KeywordCase[i][1]]

\* str.lower() on the strings the scheduler lower-cases: keywords, their
\* title-cased forms, and the empty word of a title that has no keyword
Lower(s) ==
    IF \E i \in 1..Len(KeywordCase) : s \in {KeywordCase[i][1], KeywordCase[i][3]}
    THEN LET i == CHOOSE j \in 1..Len(KeywordCase) :
                      s \in {KeywordCase[j][1], KeywordCase[j][3]}
         IN  KeywordCase[i][2]
    ELSE s

\* str.title() on a keyword
TitleCase(k) ==
    LET i == CHOOSE j \in 1..Len(KeywordCase) : KeywordCase[j][1] = k
    IN  KeywordCase[i][3]

\* ------------------------------------------------------------ live sources
\* RSS_FEEDS in iteration order: five cybersecurity_news feeds, two career_news
RSS_FEEDS ==
    <<"cybersecurity_news", "cybersecurity_news", "cybersecurity_news",
      "cybersecurity_news", "cybersecurity_news", "career_news", "career_news">>

Feeds == 1..Len(RSS_FEEDS)

\* ---------------------------------------------------------- topic catalog
\* TOPIC_FRAMEWORKS: per category, its topic groups in order; n is the number
\* of variations of the group
TOPIC_FRAMEWORKS ==
    <<
    [category |-> "getting-started",
     groups |-> <<[template |-> "breaking_in", n |-> 7],
                  [template |-> "first_steps", n |-> 6]>>],
    [category |-> "certifications",
     groups |-> <<[template |-> "cert_review", n |-> 7],
                  [template |-> "cert_strategy", n |-> 5]>>],
    [category |-> "salaries",
     groups |-> <<[template |-> "salary_data", n |-> 6]>>],
    [category |-> "career-paths",
     groups |-> <<[template |-> "role_guide", n |-> 8],
                  [template |-> "career_decisions", n |-> 4]>>],
    [category |-> "job-search",
     groups |-> <<[template |-> "applications", n |-> 5],
                  [template |-> "interviews", n |-> 3],
                  [template |-> "strategy", n |-> 3]>>],
    [category |-> "skills",
     groups |-> <<[template |-> "technical", n |-> 6],
                  [template |-> "soft_skills", n |-> 3]>>],
    [category |-> "industry-trends",
     groups |-> <<[template |-> "market_trends", n |-> 4],
                  [template |-> "future", n |-> 3]>>]
    >>

NumCategories == Len(TOPIC_FRAMEWORKS)

\* the (category, group) positions of the catalog, 1-based
GroupKeys ==
    UNION {{<<c, g>> : g \in 1..Len(TOPIC_FRAMEWORKS[c].groups)} :
              c \in 1..NumCategories}

\* variations[idx] of a group: its title (idx is 0-based, as in the code)
VariationTitle(c, g, idx) ==
    <<"evergreen", TOPIC_FRAMEWORKS[c].groups[g].template, "", idx>>

EvergreenTitles ==
    UNION {{VariationTitle(k[1], k[2], i) :
               i \in 0..(TOPIC_FRAMEWORKS[k[1]].groups[k[2]].n - 1)} :
              k \in GroupKeys}

\* DYNAMIC_TEMPLATES: key -> category, in dict order
DYNAMIC_TEMPLATES ==
    <<[key |-> "news_reaction", category |-> "industry-trends"],
      [key |-> "trending_skill", category |-> "skills"],
      [key |-> "market_update", category |-> "salaries"],
      [key |-> "threat_career", category |-> "career-paths"]>>

INTRO_STYLES ==
    <<"stat_hook", "question_hook", "myth_buster", "story_hook", "direct_answer">>

CONTENT_STRUCTURES ==
    <<"listicle", "guide", "comparison", "deep_dive", "qa_format", "myth_vs_reality">>

\* ------------------------------------------------------------------ dates
\* datetime.now().strftime("%Y-%m-%d"): the calendar day of a time
DateOf(t) == t \div MinutesPerDay

\* datetime.strptime(d, "%Y-%m-%d"): midnight at the start of day d
Midnight(d) == d * MinutesPerDay

\* strftime("%B") with strftime("%Y"): the month a time falls in
MonthOf(t) == DateOf(t) \div DaysPerMonth

\* ------------------------------------------------------- state management
DefaultState ==
    [last_post_date |-> NoDate,
     published_posts |-> <<>>,
     category_rotation |-> 0,
     topic_index |-> [k \in GroupKeys |-> 0],
     group_index |-> [c \in 1..NumCategories |-> 0],
     style_rotation |-> 0,
     structure_rotation |-> 0,
     post_count |-> 0,
     recent_topics |-> <<>>]

NoStateFile == [exists |-> FALSE, data |-> DefaultState]

\* load_state: the parsed file, or the defaults when there is none
load_state(file) == IF file.exists THEN file.data ELSE DefaultState

\* save_state: the file holds the whole in-memory state
save_state(state) == [exists |-> TRUE, data |-> state]

\* get_content_hash: md5 of the lower-cased title
get_content_hash(title) == <<title[1], title[2], Lower(title[3]), title[4]>>

\* ------------------------------------------------------ live data fetching
\* What a feed's server answers: ok = FALSE is a network error or malformed
\* XML; an item's text is the set of lower-cased keywords that occur in its
\* title and description
FailedFeed == [ok |-> FALSE, items |-> <<>>]

\* fetch_rss_feed that keeps what it can read of a document that fails
fetch_rss_feed_unguarded(resp) == Take(resp.items, FeedItemsKept)

\* fetch_rss_feed: the first ten items of the feed, or nothing on any error
fetch_rss_feed(resp) == IF resp.ok THEN Take(resp.items, FeedItemsKept) ELSE <<>>

\* fetch_all_news: the feeds' items in feed order, each tagged with its
\* category and source
RECURSIVE NewsFrom(_, _)
NewsFrom(f, world) ==
    IF f > Len(RSS_FEEDS) THEN <<>>
    ELSE LET items == fetch_rss_feed(world[f])
             tagged == [i \in 1..Len(items) |->
                          [title |-> items[i].title, text |-> items[i].text,
                           category |-> RSS_FEEDS[f], source |-> f]]
         IN  tagged \o NewsFrom(f + 1, world)

fetch_all_news(world) == NewsFrom(1, world)

\* keyword_counts[keyword] after the scan of all items
KeywordCount(k, news) ==
    Cardinality({i \in 1..Len(news) : Lower(TrendingKeywords[k]) \in news[i].text})

\* the item whose scan inserted the keyword into keyword_counts
FirstSeen(k, news) ==
    CHOOSE i \in 1..Len(news) :
        /\ Lower(TrendingKeywords[k]) \in news[i].text
        /\ \A j \in 1..(i - 1) : Lower(TrendingKeywords[k]) \notin news[j].text

\* sorted(..., reverse=True) is stable: by count, then by insertion order
RanksBefore(k, j, news) ==
    \/ KeywordCount(k, news) > KeywordCount(j, news)
    \/ /\ KeywordCount(k, news) = KeywordCount(j, news)
       /\ \/ FirstSeen(k, news) < FirstSeen(j, news)
          \/ FirstSeen(k, news) = FirstSeen(j, news) /\ k < j

RECURSIVE SortedTopics(_, _)
SortedTopics(S, news) ==
    IF S = {} THEN <<>>
    ELSE LET best == CHOOSE k \in S : \A j \in S \ {k} : RanksBefore(k, j, news)
         IN  <<<<TrendingKeywords[best], KeywordCount(best, news)>>>>
                 \o SortedTopics(S \ {best}, news)

\* extract_trending_topics: the ten most frequent keywords with their counts
extract_trending_topics(news) ==
    Take(SortedTopics({k \in 1..Len(TrendingKeywords) : KeywordCount(k, news) > 0},
                      news),
         TrendingKept)

NoCacheFile ==
    [exists |-> FALSE, timestamp |-> NoTime, news |-> <<>>, trending |-> <<>>,
     fetch_date |-> NoDate]

\* CacheValid that still serves a cache exactly 12 hours old
CacheValidInclusive(file, force_refresh, t) ==
    /\ file.exists
    /\ ~force_refresh
    /\ t - file.timestamp <= CACHE_MAX_AGE_HOURS * MinutesPerHour

\* get_fresh_data, the test of lines 169-173: is the cache served
CacheValid(file, force_refresh, t) ==
    /\ file.exists
    /\ ~force_refresh
    /\ t - file.timestamp < CACHE_MAX_AGE_HOURS * MinutesPerHour

\* get_fresh_data, lines 176-188: the cache built from a fetch at time t
FreshCache(world, t) ==
    LET news_items == fetch_all_news(world)
    IN  [exists |-> TRUE,
         timestamp |-> t,
         news |-> news_items,
         trending |-> extract_trending_topics(news_items),
         fetch_date |-> MonthOf(t)]

\* get_fresh_data that adds the fetched items to the cached ones
get_fresh_data_merging(file, force_refresh, world, t) ==
    IF CacheValid(file, force_refresh, t) THEN file
    ELSE LET news_items == file.news \o fetch_all_news(world)
         IN  [FreshCache(world, t) EXCEPT
                 !.news = news_items,
                 !.trending = extract_trending_topics(news_items)]

\* get_fresh_data: the cache file it leaves (what it returns is that file's
\* content)
get_fresh_data(file, force_refresh, world, t) ==
    IF CacheValid(file, force_refresh, t) THEN file ELSE FreshCache(world, t)

\* --------------------------------------------------------- topic selection
NoTitle == <<"", "", "", 0>>

NoTopic ==
    [some |-> FALSE, category |-> "", base_topic |-> "", title |-> NoTitle,
     title_hash |-> NoTitle, is_dynamic |-> FALSE]

\* AvailableTrends that takes every trending entry, recently used or not
AvailableTrendsUnfiltered(st, live) == live.trending

\* select_dynamic_topic, lines 457-458: the trending entries whose keyword is
\* not, case-insensitively, among the recent topics
AvailableTrends(st, live) ==
    LET NotRecent(e) ==
            Lower(e[1]) \notin {Lower(r) : r \in Range(st.recent_topics)}
    IN  SelectSeq(live.trending, NotRecent)

\* the keywords random.choice can draw at line 464
TrendChoices(st, live) == Take(AvailableTrends(st, live), TrendsConsidered)

\* DynamicTitle that fills the keyword in as it stands in the trending list
DynamicTitleAsListed(template_key, trend_keyword, t) ==
    IF template_key = "market_update"
    THEN <<"dynamic", template_key, "", MonthOf(t)>>
    ELSE <<"dynamic", template_key, trend_keyword, 0>>

\* lines 472-486: the title format of the template, filled in
DynamicTitle(template_key, trend_keyword, t) ==
    IF template_key = "market_update"
    THEN <<"dynamic", template_key, "", MonthOf(t)>>
    ELSE <<"dynamic", template_key, TitleCase(trend_keyword), 0>>

\* select_dynamic_topic without the test of lines 493-494
select_dynamic_topic_unchecked(st, live, pick, tmpl, t) ==
    IF AvailableTrends(st, live) = <<>>
    THEN [state |-> st, topic |-> NoTopic]
    ELSE LET trend_keyword == TrendChoices(st, live)[pick][1]
             template == DYNAMIC_TEMPLATES[tmpl]
             title == DynamicTitle(template.key, trend_keyword, t)
         IN  [state |->
                 [st EXCEPT !.recent_topics =
                     LastN(Append(st.recent_topics, trend_keyword),
                           RecentTopicsKept)],
              topic |->
                 [some |-> TRUE, category |-> template.category,
                  base_topic |-> trend_keyword, title |-> title,
                  title_hash |-> get_content_hash(title), is_dynamic |-> TRUE]]

\* select_dynamic_topic with the two random draws given: pick is the position
\* drawn among the trend choices, tmpl the template drawn
select_dynamic_topic(st, live, pick, tmpl, t) ==
    IF AvailableTrends(st, live) = <<>>
    THEN [state |-> st, topic |-> NoTopic]
    ELSE LET trend_keyword == TrendChoices(st, live)[pick][1]
             template == DYNAMIC_TEMPLATES[tmpl]
             title == DynamicTitle(template.key, trend_keyword, t)
             title_hash == get_content_hash(title)
         IN  IF title_hash \in Range(st.published_posts)
             THEN [state |-> st, topic |-> NoTopic]
             ELSE [state |->
                      [st EXCEPT !.recent_topics =
                          LastN(Append(st.recent_topics, trend_keyword),
                                RecentTopicsKept)],
                   topic |->
                      [some |-> TRUE, category |-> template.category,
                       base_topic |-> trend_keyword, title |-> title,
                       title_hash |-> title_hash, is_dynamic |-> TRUE]]

\* select_evergreen_topic, lines 523-524: the category this call examines
\* (1-based position in TOPIC_FRAMEWORKS)
RotationCategory(st) == (st.category_rotation % NumCategories) + 1

\* lines 537-541: the group of that category this call examines (1-based)
RotationGroup(st) ==
    LET c == RotationCategory(st)
    IN  (st.group_index[c] % Len(TOPIC_FRAMEWORKS[c].groups)) + 1

\* UnusedInScan that takes every variation of the group for unused
UnusedInScanUnchecked(st, c, g) ==
    [a \in 1..TOPIC_FRAMEWORKS[c].groups[g].n |-> a - 1]

\* lines 550-573: the variation indices of the scan, in scan order, whose
\* title hash is not published
UnusedInScan(st, c, g) ==
    LET n == TOPIC_FRAMEWORKS[c].groups[g].n
        var_idx == st.topic_index[<<c, g>>]
        Unused(a) ==
            get_content_hash(VariationTitle(c, g, (var_idx + a) % n))
                \notin Range(st.published_posts)
    IN  SelectSeq([a \in 1..n |-> a - 1], Unused)

\* RotationOnEntry that stores the index it read
RotationOnEntryStuck(st) == st.category_rotation % NumCategories

\* RotationOnEntry that counts on from the stored index without reducing it
RotationOnEntryUnreduced(st) == st.category_rotation + 1

\* line 525: the rotation index stored on entry to a call
RotationOnEntry(st) == (st.category_rotation % NumCategories) + 1

\* RotationOnExhausted that makes the retry examine the same category again
RotationOnExhaustedSame(stored) == stored - 1

\* line 576: the rotation index stored when the group is exhausted
RotationOnExhausted(stored) == stored + 1

\* select_evergreen_topic that leaves the saved offset as it was
select_evergreen_topic_keeping_offset(st) ==
    LET c == RotationCategory(st)
        g == RotationGroup(st)
        n == TOPIC_FRAMEWORKS[c].groups[g].n
        entered == [st EXCEPT !.category_rotation = RotationOnEntry(st),
                              !.group_index[c] = g]
        unused == UnusedInScan(st, c, g)
    IN  IF unused # <<>>
        THEN LET idx == (st.topic_index[<<c, g>>] + unused[1]) % n
                 title == VariationTitle(c, g, idx)
             IN  [state |-> entered,
                  topic |->
                     [some |-> TRUE, category |-> TOPIC_FRAMEWORKS[c].category,
                      base_topic |-> TOPIC_FRAMEWORKS[c].groups[g].template,
                      title |-> title, title_hash |-> get_content_hash(title),
                      is_dynamic |-> FALSE]]
        ELSE [state |-> [entered EXCEPT !.category_rotation =
                            RotationOnExhausted(entered.category_rotation)],
              topic |-> NoTopic]

\* select_evergreen_topic that stores the advanced group index only with the
\* topic it returns
select_evergreen_topic_group_on_success(st) ==
    LET c == RotationCategory(st)
        g == RotationGroup(st)
        n == TOPIC_FRAMEWORKS[c].groups[g].n
        entered == [st EXCEPT !.category_rotation = RotationOnEntry(st)]
        unused == UnusedInScan(st, c, g)
    IN  IF unused # <<>>
        THEN LET idx == (st.topic_index[<<c, g>>] + unused[1]) % n
                 title == VariationTitle(c, g, idx)
             IN  [state |-> [entered EXCEPT !.group_index[c] = g,
                                            !.topic_index[<<c, g>>] = idx + 1],
                  topic |->
                     [some |-> TRUE, category |-> TOPIC_FRAMEWORKS[c].category,
                      base_topic |-> TOPIC_FRAMEWORKS[c].groups[g].template,
                      title |-> title, title_hash |-> get_content_hash(title),
                      is_dynamic |-> FALSE]]
        ELSE [state |-> [entered EXCEPT !.category_rotation =
                            RotationOnExhausted(entered.category_rotation)],
              topic |-> NoTopic]

\* one call of select_evergreen_topic, up to its return or its recursive call:
\* topic.some = FALSE is the recursive call of line 577, on the returned state
select_evergreen_topic(st) ==
    LET c == RotationCategory(st)
        g == RotationGroup(st)
        n == TOPIC_FRAMEWORKS[c].groups[g].n
        entered == [st EXCEPT !.category_rotation = RotationOnEntry(st),
                              !.group_index[c] = g]
        unused == UnusedInScan(st, c, g)
    IN  IF unused # <<>>
        THEN LET idx == (st.topic_index[<<c, g>>] + unused[1]) % n
                 title == VariationTitle(c, g, idx)
             IN  [state |-> [entered EXCEPT !.topic_index[<<c, g>>] = idx + 1],
                  topic |->
                     [some |-> TRUE, category |-> TOPIC_FRAMEWORKS[c].category,
                      base_topic |-> TOPIC_FRAMEWORKS[c].groups[g].template,
                      title |-> title, title_hash |-> get_content_hash(title),
                      is_dynamic |-> FALSE]]
        ELSE [state |-> [entered EXCEPT !.category_rotation =
                            RotationOnExhausted(entered.category_rotation)],
              topic |-> NoTopic]

\* --------------------------------------------------------- main scheduler
\* should_post_today that counts from the hour of the clock, not from midnight
should_post_today_strict(st, t) ==
    IF st.last_post_date = NoDate THEN TRUE
    ELSE LET last_date == Midnight(st.last_post_date)
             days_since == (t - last_date) \div MinutesPerDay
         IN  days_since > PostIntervalDays

\* should_post_today that lets a post through on the day after the last one
should_post_today_next_day(st, t) ==
    IF st.last_post_date = NoDate THEN TRUE
    ELSE LET last_date == Midnight(st.last_post_date)
             days_since == (t - last_date) \div MinutesPerDay
         IN  days_since >= PostIntervalDays - 1

\* should_post_today at time t
should_post_today(st, t) ==
    IF st.last_post_date = NoDate THEN TRUE
    ELSE LET last_date == Midnight(st.last_post_date)
             days_since == (t - last_date) \div MinutesPerDay
         IN  days_since >= PostIntervalDays

\* slugify: lower-cases the title (punctuation and spacing play no part in
\* telling the modelled titles apart)
slugify(title) == <<title[1], title[2], Lower(title[3]), title[4]>>

NoPost ==
    [some |-> FALSE, title |-> NoTitle, filepath |-> <<0, NoTitle>>,
     intro_style |-> "", structure |-> ""]

\* BlogPostGenerator.generate: the post and its path posts/<year>/<month>/<slug>
generate(tp, intro_style, structure, t) ==
    [some |-> TRUE, title |-> tp.title,
     filepath |-> <<MonthOf(t), slugify(tp.title)>>,
     intro_style |-> intro_style, structure |-> structure]

\* BlogPostGenerator.save: write_text creates or overwrites the file at the path
save(files, post_data) ==
    {f \in files : f.filepath # post_data.filepath} \cup {post_data}

\* IntroStyleOf that takes the style after the one the counter points at
IntroStyleOfNext(st) ==
    INTRO_STYLES[((st.style_rotation + 1) % Len(INTRO_STYLES)) + 1]

\* lines 783-786: the styles of this post
IntroStyleOf(st) == INTRO_STYLES[(st.style_rotation % Len(INTRO_STYLES)) + 1]

StructureOf(st) ==
    CONTENT_STRUCTURES[(st.structure_rotation % Len(CONTENT_STRUCTURES)) + 1]

\* PublishedState that starts the list over with the new hash
PublishedStateReset(st, tp, t) ==
    [st EXCEPT !.last_post_date = DateOf(t),
               !.published_posts = <<tp.title_hash>>,
               !.post_count = st.post_count + 1]

\* lines 837-841: the state that is saved after the post file was written
PublishedState(st, tp, t) ==
    [st EXCEPT !.last_post_date = DateOf(t),
               !.published_posts = Append(st.published_posts, tp.title_hash),
               !.post_count = st.post_count + 1]

\* ----------------------------------------------------- maintenance scripts
\* The HTML files under posts/ as update_manifest.py and patch_posts.py read
\* them.  A file is [path, html]; a path posts/<year>/<month>/<name>.html is
\* the month (counted like MonthOf) and the name; the html is what the two
\* scripts search the text for.
PostNames == <<"broken", "cissp-guide", "index", "soc-analyst", "zero-trust">>

\* the names in the order string comparison gives them
NameRank(name) == CHOOSE i \in 1..Len(PostNames) : PostNames[i] = name

\* the order of paths under sorted(): by directory, then by file name
PathKey(path) == path.month * (Len(PostNames) + 1) + NameRank(path.name)

\* the page generate_post.py builds from its template on the given day: the
\* published_time meta tag, and every text the patch rules look for (the
\* default stats include the ~0% Unemployment block)
GeneratedHtml(day) ==
    [readable |-> TRUE, published_time |-> day, unemployment_stat |-> TRUE,
     grid_css |-> TRUE, stat_css |-> "plain", blog_links |-> TRUE,
     mobile_grid |-> TRUE]

\* a page written by hand: no published_time tag, links back to /blog/
HandWrittenHtml ==
    [readable |-> TRUE, published_time |-> NoDate, unemployment_stat |-> FALSE,
     grid_css |-> FALSE, stat_css |-> "none", blog_links |-> TRUE,
     mobile_grid |-> FALSE]

\* a file that is not valid UTF-8: read_text raises
UnreadableHtml ==
    [readable |-> FALSE, published_time |-> NoDate, unemployment_stat |-> FALSE,
     grid_css |-> FALSE, stat_css |-> "none", blog_links |-> FALSE,
     mobile_grid |-> FALSE]

\* posts/ does not exist
NoPostsDir == [exists |-> FALSE, files |-> {}]

\* the file of the directory at a path
FileAt(dir, path) == CHOOSE f \in dir.files : f.path = path

\* sorted(reverse=True) and list.sort(reverse=True) on <<key, value>> pairs:
\* by key descending, pairs of equal key in the order they came in
RECURSIVE SortedReverse(_)
SortedReverse(s) ==
    IF s = <<>> THEN <<>>
    ELSE LET x == Head(s)
             rest == SortedReverse(Tail(s))
             Above(y) == y[1] > x[1]
             NotAbove(y) == y[1] <= x[1]
         IN  SelectSeq(rest, Above) \o <<x>> \o SelectSeq(rest, NotAbove)

\* sorted() on <<key, value>> pairs: by key ascending
RECURSIVE Sorted(_)
Sorted(s) ==
    IF s = <<>> THEN <<>>
    ELSE LET x == Head(s)
             rest == Sorted(Tail(s))
             Below(y) == y[1] < x[1]
             NotBelow(y) == y[1] >= x[1]
         IN  SelectSeq(rest, Below) \o <<x>> \o SelectSeq(rest, NotBelow)

\* the values of a sequence of <<key, value>> pairs
Values(s) == [i \in 1..Len(s) |-> s[i][2]]

\* rglob("*.html"): the files in whatever order the file system lists them
Listings(dir) ==
    {l \in [1..Cardinality(dir.files) -> dir.files] :
        \A i, j \in DOMAIN l : l[i] = l[j] => i = j}

\* ------------------------------------------------------ update_manifest.py
NoMeta ==
    [some |-> FALSE, date |-> NoDate, filepath |-> [month |-> 0, name |-> ""],
     slug |-> "", featured |-> FALSE]

\* extract_metadata: None for a file that cannot be read; the date is the
\* published_time tag (YYYY-MM-DD, so that string order is day order) or,
\* without the tag, the first day of the month directory
extract_metadata(file) ==
    IF ~file.html.readable THEN NoMeta
    ELSE [some |-> TRUE,
          date |-> IF file.html.published_time # NoDate
                   THEN file.html.published_time
                   ELSE file.path.month * DaysPerMonth,
          filepath |-> file.path,
          slug |-> file.path.name,
          featured |-> FALSE]

\* scan_posts, lines 164-176: the metadata of the files in the order of the
\* walk, index.html and unreadable files left out
ScannedMetadata(html_files) ==
    LET NotIndex(f) == f.path.name # "index"
        Some(m) == m.some
        kept == SelectSeq(html_files, NotIndex)
    IN  SelectSeq([i \in 1..Len(kept) |-> extract_metadata(kept[i])], Some)

\* scan_posts, lines 181-183: the first post is marked featured
FeaturedFirst(posts) ==
    IF posts = <<>> THEN posts ELSE [posts EXCEPT ![1].featured = TRUE]

\* scan_posts that walks the files in the order rglob lists them
scan_posts_unsorted(dir, listing) ==
    IF ~dir.exists THEN <<>>
    ELSE LET metas == ScannedMetadata(listing)
         IN  FeaturedFirst(Values(SortedReverse(
                 [i \in 1..Len(metas) |-> <<metas[i].date, metas[i]>>])))

\* scan_posts that leaves the posts in the order of the walk
scan_posts_in_path_order(dir, listing) ==
    IF ~dir.exists THEN <<>>
    ELSE LET html_files ==
                 Values(SortedReverse(
                     [i \in 1..Len(listing) |->
                         <<PathKey(listing[i].path), listing[i]>>]))
         IN  FeaturedFirst(ScannedMetadata(html_files))

\* scan_posts over the directory, listing being the order of rglob
scan_posts(dir, listing) ==
    IF ~dir.exists THEN <<>>
    ELSE LET html_files ==
                 Values(SortedReverse(
                     [i \in 1..Len(listing) |->
                         <<PathKey(listing[i].path), listing[i]>>]))
             metas == ScannedMetadata(html_files)
         IN  FeaturedFirst(Values(SortedReverse(
                 [i \in 1..Len(metas) |-> <<metas[i].date, metas[i]>>])))

\* generate_manifest at time t: the manifest it writes and returns
generate_manifest(dir, listing, t) ==
    LET posts == scan_posts(dir, listing)
    IN  [exists |-> TRUE, generated |-> t, count |-> Len(posts), posts |-> posts]

\* ----------------------------------------------------------- patch_posts.py
\* patch_file, lines 26-56: the rules that match the text, in order
PatchChanges(html) ==
    LET Matches(rule) ==
            \/ rule = "unemployment" /\ html.unemployment_stat
            \/ rule = "grid" /\ html.grid_css
            \/ rule = "stat" /\ html.stat_css = "plain"
            \/ rule = "links" /\ html.blog_links
            \/ rule = "mobile" /\ html.mobile_grid
    IN  SelectSeq(<<"unemployment", "grid", "stat", "links", "mobile">>, Matches)

\* patch_file, lines 26-56: the text after every matching rule was applied
PatchedText(html) ==
    [html EXCEPT !.unemployment_stat = FALSE,
                 !.grid_css = FALSE,
                 !.stat_css = IF @ = "plain" THEN "flex" ELSE @,
                 !.blog_links = FALSE,
                 !.mobile_grid = FALSE]

\* patch_file that writes the new text in a dry run too
patch_file_always_writing(html, dry_run) ==
    LET text == PatchedText(html)
    IN  IF text # html
        THEN [html |-> text, changes |-> PatchChanges(html)]
        ELSE [html |-> html, changes |-> <<>>]

\* patch_file on a readable file: the text the file holds afterwards and the
\* changes returned
patch_file(html, dry_run) ==
    LET text == PatchedText(html)
    IN  IF text # html
        THEN [html |-> IF ~dry_run THEN text ELSE html,
              changes |-> PatchChanges(html)]
        ELSE [html |-> html, changes |-> <<>>]

\* posts/posts.json does not exist
NoManifestFile ==
    [exists |-> FALSE, generated |-> NoTime, count |-> 0, posts |-> <<>>]

\* patch_posts.py is not running
IdlePatcher ==
    [pc |-> "idle", dry_run |-> TRUE, todo |-> <<>>, found |-> 0, read |-> {},
     reported |-> <<>>, patched |-> 0, output |-> "", status |-> NoStatus]

\* ------------------------------------------------------------ environment
\* Items the feeds may carry, and the answers of the seven feeds at a fetch
Item(title, text) == [title |-> title, text |-> text]

OkFeed(items) == [ok |-> TRUE, items |-> items]

AllFeedsFail == [f \in Feeds |-> FailedFeed]

Worlds ==
    {AllFeedsFail,
     [AllFeedsFail EXCEPT
        ![1] = OkFeed(<<Item("n2", {"ransomware", "ai"}), Item("n1", {"ransomware"})>>),
        ![6] = OkFeed(<<Item("n3", {})>>)]}

\* a document that holds items but does not parse
Malformed(items) == [ok |-> FALSE, items |-> items]

\* what each of the seven feeds carries; the first one more than ten items
FeedContent ==
    <<<<Item("a01", {"ransomware"}), Item("a02", {}), Item("a03", {}),
        Item("a04", {}), Item("a05", {}), Item("a06", {}), Item("a07", {}),
        Item("a08", {}), Item("a09", {}), Item("a10", {"ai"}),
        Item("a11", {"ransomware", "phishing"})>>,
      <<Item("b01", {"ransomware"})>>,
      <<Item("c01", {"phishing"}), Item("c02", {})>>,
      <<>>,
      <<Item("e01", {"ai"})>>,
      <<Item("f01", {}), Item("f02", {"cissp"})>>,
      <<Item("g01", {"soc"})>>>>

\* the answers at a fetch where the feeds of any subset fail: the even ones by
\* a document that does not parse, the odd ones by a network error
FeedWorlds ==
    {[f \in Feeds |->
        IF f \in failing
        THEN IF f % 2 = 0 THEN Malformed(FeedContent[f]) ELSE FailedFeed
        ELSE OkFeed(FeedContent[f])] : failing \in SUBSET Feeds}

\* the keywords that trend together on a news day: one more than a run
\* considers
TrendsPerDay == TrendsConsidered + 1

\* the tracked keywords that are spelled within another one: line 157 looks
\* for a keyword anywhere in the text
SpelledWithin ==
    {<<"ai", "supply chain">>, <<"ot", "remote work">>, <<"ot", "iot">>}

\* the lower-cased keywords line 157 finds in a headline that names one
Mentions(word) == {word} \cup {q[1] : q \in {r \in SpelledWithin : r[2] = word}}

\* a fetch at which the first feed carries one headline for each of the
\* TrendsPerDay tracked keywords from position first on, and a career feed a
\* digest that names the first two of them again
TrendWorld(first) ==
    [AllFeedsFail EXCEPT
        ![1] = OkFeed([i \in 1..TrendsPerDay |->
                          Item(Lower(TrendingKeywords[first + i - 1]),
                               Mentions(Lower(TrendingKeywords[first + i - 1])))]),
        ![6] = OkFeed(<<Item("digest",
                             Mentions(Lower(TrendingKeywords[first])) \cup
                             Mentions(Lower(TrendingKeywords[first + 1])))>>)]

\* where in the list of tracked keywords the keywords of each news day start
TrendDayStarts == <<1, 11, 17, 27>>

\* four news days: each has its own keywords trending
TrendWorlds == {TrendWorld(TrendDayStarts[d]) : d \in 1..Len(TrendDayStarts)}

\* the news day of the m-th keyword of the news days taken one after another
TrendDay(m) == TrendWorld(TrendDayStarts[((m - 1) \div TrendsPerDay) + 1])

\* ------------------------------------------------------------------ state
VARIABLES
    now,          \* the wall clock, in minutes
    stateFile,    \* scheduler_state.json
    cacheFile,    \* data_cache.json
    postFiles,    \* the files under posts/
    pc,           \* per process: where its run of generate_scheduled_post is
    args,         \* per process: the flags preview, force, refresh_data
    state,        \* per process: the in-memory state dict
    live_data,    \* per process: what get_fresh_data returned
    topic,        \* per process: the selected topic
    post,         \* per process: the generated post
    depth,        \* per process: nested calls of select_evergreen_topic
    responses,    \* what the feed servers answered at the latest fetch
    postsDir,     \* posts/ as update_manifest.py and patch_posts.py read it
    manifestFile, \* posts/posts.json
    patcher       \* the run of patch_posts.py

vars ==
    <<now, stateFile, cacheFile, postFiles, pc, args, state, live_data, topic,
      post, depth, responses, postsDir, manifestFile, patcher>>

\* what the scheduler leaves alone: the files of the maintenance scripts
site == <<postsDir, manifestFile, patcher>>

NoArgs == [preview |-> FALSE, force |-> FALSE, refresh_data |-> FALSE]

Running == {"fetch", "select", "evergreen", "generate", "save_post", "save_state"}

Init ==
    /\ now = 0
    /\ stateFile = NoStateFile
    /\ cacheFile = NoCacheFile
    /\ postFiles = {}
    /\ pc = [p \in Procs |-> "idle"]
    /\ args = [p \in Procs |-> NoArgs]
    /\ state = [p \in Procs |-> DefaultState]
    /\ live_data = [p \in Procs |-> NoCacheFile]
    /\ topic = [p \in Procs |-> NoTopic]
    /\ post = [p \in Procs |-> NoPost]
    /\ depth = [p \in Procs |-> 0]
    /\ responses = AllFeedsFail
    /\ postsDir = NoPostsDir
    /\ manifestFile = NoManifestFile
    /\ patcher = IdlePatcher

\* time passes between runs
Tick(d) ==
    /\ \A p \in Procs : pc[p] = "idle"
    /\ now + d <= MaxNow
    /\ d > 0
    /\ now' = now + d
    /\ UNCHANGED <<stateFile, cacheFile, postFiles, pc, args, state, live_data,
                   topic, post, depth>>
    /\ UNCHANGED <<responses, site>>

\* StartRun that goes on to the data fetch whatever the gate says
StartRunUngated(p, preview, force, refresh_data) ==
    /\ pc[p] = "idle"
    /\ args' = [args EXCEPT ![p] = [preview |-> preview, force |-> force,
                                    refresh_data |-> refresh_data]]
    /\ state' = [state EXCEPT ![p] = load_state(stateFile)]
    /\ pc' = [pc EXCEPT ![p] = "fetch"]
    /\ UNCHANGED <<now, stateFile, cacheFile, postFiles, live_data, topic, post,
                   depth>>
    /\ UNCHANGED <<responses, site>>

\* StartRun that applies the gate to forced runs too
StartRunGated(p, preview, force, refresh_data) ==
    /\ pc[p] = "idle"
    /\ args' = [args EXCEPT ![p] = [preview |-> preview, force |-> force,
                                    refresh_data |-> refresh_data]]
    /\ state' = [state EXCEPT ![p] = load_state(stateFile)]
    /\ pc' = [pc EXCEPT ![p] =
                IF ~should_post_today(load_state(stateFile), now)
                THEN "not_due" ELSE "fetch"]
    /\ UNCHANGED <<now, stateFile, cacheFile, postFiles, live_data, topic, post,
                   depth>>
    /\ UNCHANGED <<responses, site>>

\* generate_scheduled_post, lines 762-770: load the state and pass the gate,
\* or return None
StartRun(p, preview, force, refresh_data) ==
    /\ pc[p] = "idle"
    /\ args' = [args EXCEPT ![p] = [preview |-> preview, force |-> force,
                                    refresh_data |-> refresh_data]]
    /\ state' = [state EXCEPT ![p] = load_state(stateFile)]
    /\ pc' = [pc EXCEPT ![p] =
                IF ~force /\ ~should_post_today(load_state(stateFile), now)
                THEN "not_due" ELSE "fetch"]
    /\ UNCHANGED <<now, stateFile, cacheFile, postFiles, live_data, topic, post,
                   depth>>
    /\ UNCHANGED <<responses, site>>

\* line 773: get_fresh_data, which may rewrite the cache file
GetFreshData(p, world) ==
    /\ pc[p] = "fetch"
    /\ cacheFile' = get_fresh_data(cacheFile, args[p].refresh_data, world, now)
    /\ live_data' = [live_data EXCEPT ![p] = cacheFile']
    /\ pc' = [pc EXCEPT ![p] = "select"]
    /\ responses' = IF CacheValid(cacheFile, args[p].refresh_data, now)
                    THEN responses ELSE world
    /\ UNCHANGED <<now, stateFile, postFiles, args, state, topic, post, depth>>
    /\ UNCHANGED site

\* SelectNextTopic that gives up when the dynamic attempt yields nothing
SelectNextTopicNoFallback(p, roll, pick, tmpl) ==
    /\ pc[p] = "select"
    /\ LET use_dynamic == roll /\ live_data[p].trending # <<>>
           r == select_dynamic_topic(state[p], live_data[p], pick, tmpl, now)
       IN  IF use_dynamic
           THEN /\ pick \in 1..Len(TrendChoices(state[p], live_data[p]))
                   \/ (pick = 1 /\ TrendChoices(state[p], live_data[p]) = <<>>)
                /\ state' = [state EXCEPT ![p] = r.state]
                /\ topic' = [topic EXCEPT ![p] = r.topic]
                /\ pc' = [pc EXCEPT ![p] =
                            IF r.topic.some THEN "generate" ELSE "failed"]
           ELSE /\ pick = 1 /\ tmpl = 1
                /\ pc' = [pc EXCEPT ![p] = "evergreen"]
                /\ UNCHANGED <<state, topic>>
    /\ UNCHANGED <<now, stateFile, cacheFile, postFiles, args, live_data, post,
                   depth>>
    /\ UNCHANGED <<responses, site>>

\* select_next_topic, lines 440-445: roll is random.random() < 0.30
SelectNextTopic(p, roll, pick, tmpl) ==
    /\ pc[p] = "select"
    /\ LET use_dynamic == roll /\ live_data[p].trending # <<>>
           r == select_dynamic_topic(state[p], live_data[p], pick, tmpl, now)
       IN  IF use_dynamic
           THEN /\ pick \in 1..Len(TrendChoices(state[p], live_data[p]))
                   \/ (pick = 1 /\ TrendChoices(state[p], live_data[p]) = <<>>)
                /\ state' = [state EXCEPT ![p] = r.state]
                /\ topic' = [topic EXCEPT ![p] = r.topic]
                /\ pc' = [pc EXCEPT ![p] =
                            IF r.topic.some THEN "generate" ELSE "evergreen"]
           ELSE /\ pick = 1 /\ tmpl = 1
                /\ pc' = [pc EXCEPT ![p] = "evergreen"]
                /\ UNCHANGED <<state, topic>>
    /\ UNCHANGED <<now, stateFile, cacheFile, postFiles, args, live_data, post,
                   depth>>
    /\ UNCHANGED <<responses, site>>

\* SelectEvergreen that saves the state after every call
SelectEvergreenSaving(p) ==
    /\ pc[p] = "evergreen"
    /\ depth[p] < RecursionLimit
    /\ LET r == select_evergreen_topic(state[p])
       IN  /\ state' = [state EXCEPT ![p] = r.state]
           /\ topic' = [topic EXCEPT ![p] = r.topic]
           /\ depth' = [depth EXCEPT ![p] = depth[p] + 1]
           /\ stateFile' = save_state(r.state)
           /\ pc' = [pc EXCEPT ![p] =
                       IF r.topic.some THEN "generate" ELSE "evergreen"]
    /\ UNCHANGED <<now, cacheFile, postFiles, args, live_data, post>>
    /\ UNCHANGED <<responses, site>>

\* line 448 and its recursion: one call of select_evergreen_topic; the
\* interpreter ends the run once the calls nest RecursionLimit deep
SelectEvergreen(p) ==
    /\ pc[p] = "evergreen"
    /\ IF depth[p] >= RecursionLimit
       THEN /\ pc' = [pc EXCEPT ![p] = "failed"]
            /\ UNCHANGED <<state, topic, depth>>
       ELSE LET r == select_evergreen_topic(state[p])
            IN  /\ state' = [state EXCEPT ![p] = r.state]
                /\ topic' = [topic EXCEPT ![p] = r.topic]
                /\ depth' = [depth EXCEPT ![p] = depth[p] + 1]
                /\ pc' = [pc EXCEPT ![p] =
                            IF r.topic.some THEN "generate" ELSE "evergreen"]
    /\ UNCHANGED <<now, stateFile, cacheFile, postFiles, args, live_data, post>>
    /\ UNCHANGED <<responses, site>>

\* GeneratePost that advances the style rotation only
GeneratePostOneRotation(p) ==
    /\ pc[p] = "generate"
    /\ post' = [post EXCEPT ![p] =
                  generate(topic[p], IntroStyleOf(state[p]), StructureOf(state[p]),
                           now)]
    /\ state' = [state EXCEPT
                   ![p].style_rotation = state[p].style_rotation + 1]
    /\ pc' = [pc EXCEPT ![p] = IF args[p].preview THEN "done" ELSE "save_post"]
    /\ UNCHANGED <<now, stateFile, cacheFile, postFiles, args, live_data, topic,
                   depth>>
    /\ UNCHANGED <<responses, site>>

\* GeneratePost that goes on to save in a preview too
GeneratePostNoPreview(p) ==
    /\ pc[p] = "generate"
    /\ post' = [post EXCEPT ![p] =
                  generate(topic[p], IntroStyleOf(state[p]), StructureOf(state[p]),
                           now)]
    /\ state' = [state EXCEPT
                   ![p].style_rotation = state[p].style_rotation + 1,
                   ![p].structure_rotation = state[p].structure_rotation + 1]
    /\ pc' = [pc EXCEPT ![p] = "save_post"]
    /\ UNCHANGED <<now, stateFile, cacheFile, postFiles, args, live_data, topic,
                   depth>>
    /\ UNCHANGED <<responses, site>>

\* lines 782-830: pick the styles, advance both rotations, build the post;
\* a preview returns it here
GeneratePost(p) ==
    /\ pc[p] = "generate"
    /\ post' = [post EXCEPT ![p] =
                  generate(topic[p], IntroStyleOf(state[p]), StructureOf(state[p]),
                           now)]
    /\ state' = [state EXCEPT
                   ![p].style_rotation = state[p].style_rotation + 1,
                   ![p].structure_rotation = state[p].structure_rotation + 1]
    /\ pc' = [pc EXCEPT ![p] = IF args[p].preview THEN "done" ELSE "save_post"]
    /\ UNCHANGED <<now, stateFile, cacheFile, postFiles, args, live_data, topic,
                   depth>>
    /\ UNCHANGED <<responses, site>>

\* SavePost that goes on to the state update with the file not yet written
SavePostDeferred(p) ==
    /\ pc[p] = "save_post"
    /\ pc' = [pc EXCEPT ![p] = "save_state"]
    /\ UNCHANGED <<now, stateFile, cacheFile, postFiles, args, state, live_data,
                   topic, post, depth>>
    /\ UNCHANGED <<responses, site>>

\* line 833: generator.save(post)
SavePost(p) ==
    /\ pc[p] = "save_post"
    /\ postFiles' = save(postFiles, post[p])
    /\ pc' = [pc EXCEPT ![p] = "save_state"]
    /\ UNCHANGED <<now, stateFile, cacheFile, args, state, live_data, topic, post,
                   depth>>
    /\ UNCHANGED <<responses, site>>

\* SaveState that reads the state file again and adds its post to that
SaveStateReloading(p) ==
    /\ pc[p] = "save_state"
    /\ state' = [state EXCEPT ![p] =
                   PublishedState(
                       [state[p] EXCEPT
                           !.published_posts = load_state(stateFile).published_posts,
                           !.post_count = load_state(stateFile).post_count],
                       topic[p], now)]
    /\ stateFile' = save_state(state'[p])
    /\ pc' = [pc EXCEPT ![p] = "done"]
    /\ UNCHANGED <<now, cacheFile, postFiles, args, live_data, topic, post, depth>>
    /\ UNCHANGED <<responses, site>>

\* lines 837-842: record the post in the state and save the state
SaveState(p) ==
    /\ pc[p] = "save_state"
    /\ state' = [state EXCEPT ![p] = PublishedState(state[p], topic[p], now)]
    /\ stateFile' = save_state(state'[p])
    /\ pc' = [pc EXCEPT ![p] = "done"]
    /\ UNCHANGED <<now, cacheFile, postFiles, args, live_data, topic, post, depth>>
    /\ UNCHANGED <<responses, site>>

\* the run ends early: an uncaught exception or the process being killed
Crash(p) ==
    /\ pc[p] \in Running
    /\ pc' = [pc EXCEPT ![p] = "failed"]
    /\ UNCHANGED <<now, stateFile, cacheFile, postFiles, args, state, live_data,
                   topic, post, depth>>
    /\ UNCHANGED <<responses, site>>

\* the process exits; nothing of its memory survives
Exit(p) ==
    /\ pc[p] \in {"not_due", "done", "failed"}
    /\ pc' = [pc EXCEPT ![p] = "idle"]
    /\ args' = [args EXCEPT ![p] = NoArgs]
    /\ state' = [state EXCEPT ![p] = DefaultState]
    /\ live_data' = [live_data EXCEPT ![p] = NoCacheFile]
    /\ topic' = [topic EXCEPT ![p] = NoTopic]
    /\ post' = [post EXCEPT ![p] = NoPost]
    /\ depth' = [depth EXCEPT ![p] = 0]
    /\ UNCHANGED <<now, stateFile, cacheFile, postFiles>>
    /\ UNCHANGED <<responses, site>>

\* the runs so far have written fewer than MaxPosts post files
BelowMaxPosts ==
    /\ Cardinality(postFiles) < MaxPosts
    /\ Len(load_state(stateFile).published_posts) < MaxPosts

\* the steps of a run once it has started
RunSteps(p) ==
    \/ \E world \in Worlds : GetFreshData(p, world)
    \/ \E roll \in BOOLEAN, pick \in 1..TrendsConsidered,
          tmpl \in 1..Len(DYNAMIC_TEMPLATES) : SelectNextTopic(p, roll, pick, tmpl)
    \/ SelectEvergreen(p)
    \/ GeneratePost(p)
    \/ SavePost(p)
    \/ SaveState(p)
    \/ Exit(p)

\* sequential runs of the scheduler, as cron starts them: one process, any
\* flags, any draw, a failure at any step; the clock is read once a day
Next ==
    \/ Tick(MinutesPerDay)
    \/ \E preview, force, refresh_data \in BOOLEAN :
          BelowMaxPosts /\ StartRun(1, preview, force, refresh_data)
    \/ RunSteps(1)
    \/ Crash(1)

Spec == Init /\ [][Next]_vars

\* the instants within a minute of a 12-hour mark
NearMark(t) == t % (CACHE_MAX_AGE_HOURS * MinutesPerHour) \in
                   {0, 1, CACHE_MAX_AGE_HOURS * MinutesPerHour - 1}

\* sequential runs that complete, with the clock read at the instants
\* around every 12-hour mark and the topic always evergreen
NextClock ==
    \/ \E d \in {1, CACHE_MAX_AGE_HOURS * MinutesPerHour - 2} :
          NearMark(now + d) /\ Tick(d)
    \/ \E preview, force, refresh_data \in BOOLEAN :
          BelowMaxPosts /\ StartRun(1, preview, force, refresh_data)
    \/ \E world \in Worlds : GetFreshData(1, world)
    \/ SelectNextTopic(1, FALSE, 1, 1)
    \/ SelectEvergreen(1)
    \/ GeneratePost(1)
    \/ SavePost(1)
    \/ SaveState(1)
    \/ Exit(1)

SpecClock == Init /\ [][NextClock]_vars

\* forced runs back to back that always draw an evergreen topic and publish
\* it, until the catalog is used up
NextRotation ==
    \/ StartRun(1, FALSE, TRUE, FALSE)
    \/ GetFreshData(1, AllFeedsFail)
    \/ SelectNextTopic(1, FALSE, 1, 1)
    \/ SelectEvergreen(1)
    \/ GeneratePost(1)
    \/ SavePost(1)
    \/ SaveState(1)
    \/ Exit(1)

SpecRotation == Init /\ [][NextRotation]_vars

\* two scheduler processes started by cron independently of each other, their
\* steps interleaved in any order; nothing in the code makes one wait for the
\* other
NextOverlap ==
    \/ Tick(MinutesPerDay)
    \/ \E p \in Procs : BelowMaxPosts /\ StartRun(p, FALSE, FALSE, FALSE)
    \/ \E p \in Procs : RunSteps(p)

SpecOverlap == Init /\ [][NextOverlap]_vars

\* the files posts/ may hold to begin with, all of day 0: two generated
\* pages (one an index.html), a page already patched, a page written by hand
\* and a file that cannot be read
OldFiles ==
    {[path |-> [month |-> 0, name |-> "cissp-guide"], html |-> GeneratedHtml(0)],
     [path |-> [month |-> 0, name |-> "index"], html |-> GeneratedHtml(0)],
     [path |-> [month |-> 0, name |-> "soc-analyst"],
      html |-> PatchedText(GeneratedHtml(0))],
     [path |-> [month |-> 0, name |-> "zero-trust"], html |-> HandWrittenHtml],
     [path |-> [month |-> 0, name |-> "broken"], html |-> UnreadableHtml]}

SiteDirs ==
    {NoPostsDir} \cup
    {[exists |-> TRUE, files |-> S] :
        S \in {T \in SUBSET OldFiles : Cardinality(T) <= MaxFiles}}

InitSite ==
    /\ now = 0
    /\ stateFile = NoStateFile
    /\ cacheFile = NoCacheFile
    /\ postFiles = {}
    /\ pc = [p \in Procs |-> "idle"]
    /\ args = [p \in Procs |-> NoArgs]
    /\ state = [p \in Procs |-> DefaultState]
    /\ live_data = [p \in Procs |-> NoCacheFile]
    /\ topic = [p \in Procs |-> NoTopic]
    /\ post = [p \in Procs |-> NoPost]
    /\ depth = [p \in Procs |-> 0]
    /\ responses = AllFeedsFail
    /\ postsDir \in SiteDirs
    /\ manifestFile = NoManifestFile
    /\ patcher = IdlePatcher

\* what the maintenance scripts leave alone: the scheduler's files and runs
scheduler ==
    <<stateFile, cacheFile, postFiles, pc, args, state, live_data, topic, post,
      depth, responses>>

\* BlogPostGenerator.save as the scripts see it: a page generated today is
\* written under posts/<year>/<month>/, the directories made as needed
WritePost(name) ==
    /\ LET file == [path |-> [month |-> MonthOf(now), name |-> name],
                    html |-> GeneratedHtml(DateOf(now))]
           files == {f \in postsDir.files : f.path # file.path} \cup {file}
       IN  /\ Cardinality(files) <= MaxFiles
           /\ postsDir' = [exists |-> TRUE, files |-> files]
    /\ UNCHANGED <<now, manifestFile, patcher, scheduler>>

\* update_manifest.py: generate_manifest, which makes posts/ if it is
\* missing; the listing is the order in which rglob yields the files
GenerateManifest ==
    /\ \E listing \in Listings(postsDir) :
          manifestFile' = generate_manifest(postsDir, listing, now)
    /\ postsDir' = [postsDir EXCEPT !.exists = TRUE]
    /\ UNCHANGED <<now, patcher, scheduler>>

\* PatchStart that does not look whether posts/ exists
PatchStartUnchecked(apply) ==
    /\ patcher.pc = "idle"
    /\ patcher' =
          IF postsDir.files = {}
          THEN [IdlePatcher EXCEPT !.pc = "exited", !.dry_run = ~apply,
                                   !.output = "no_files", !.status = 0]
          ELSE [IdlePatcher EXCEPT
                   !.pc = "patching", !.dry_run = ~apply,
                   !.found = Cardinality(postsDir.files),
                   !.todo = Values(Sorted(
                       LET l == CHOOSE l \in Listings(postsDir) : TRUE
                       IN  [i \in 1..Len(l) |-> <<PathKey(l[i].path), l[i].path>>]))]
    /\ UNCHANGED <<now, postsDir, manifestFile, scheduler>>

\* patch_posts.py main, lines 65-79: the mode, the test for posts/, the list
\* of files
PatchStart(apply) ==
    /\ patcher.pc = "idle"
    /\ patcher' =
          IF ~postsDir.exists
          THEN [IdlePatcher EXCEPT !.pc = "exited", !.dry_run = ~apply,
                                   !.output = "error", !.status = 1]
          ELSE IF postsDir.files = {}
          THEN [IdlePatcher EXCEPT !.pc = "exited", !.dry_run = ~apply,
                                   !.output = "no_files", !.status = 0]
          ELSE [IdlePatcher EXCEPT
                   !.pc = "patching", !.dry_run = ~apply,
                   !.found = Cardinality(postsDir.files),
                   !.todo = Values(Sorted(
                       LET l == CHOOSE l \in Listings(postsDir) : TRUE
                       IN  [i \in 1..Len(l) |-> <<PathKey(l[i].path), l[i].path>>]))]
    /\ UNCHANGED <<now, postsDir, manifestFile, scheduler>>

\* main, lines 82-88: one turn of the loop; a file that cannot be read ends
\* the script with a traceback
PatchFile ==
    /\ patcher.pc = "patching"
    /\ patcher.todo # <<>>
    /\ LET path == Head(patcher.todo)
           file == FileAt(postsDir, path)
           r == patch_file(file.html, patcher.dry_run)
       IN  IF ~file.html.readable
           THEN /\ patcher' = [patcher EXCEPT !.pc = "exited",
                                              !.read = @ \cup {path},
                                              !.output = "traceback",
                                              !.status = 1]
                /\ UNCHANGED postsDir
           ELSE /\ postsDir' =
                      [postsDir EXCEPT !.files =
                          (@ \ {file}) \cup {[file EXCEPT !.html = r.html]}]
                /\ patcher' =
                      [patcher EXCEPT
                          !.todo = Tail(@),
                          !.read = @ \cup {path},
                          !.reported = IF r.changes # <<>>
                                       THEN Append(@, <<path, r.changes>>) ELSE @,
                          !.patched = IF r.changes # <<>> THEN @ + 1 ELSE @]
    /\ UNCHANGED <<now, manifestFile, scheduler>>

\* main, lines 90-93: the summary, and the script ends
PatchFinish ==
    /\ patcher.pc = "patching"
    /\ patcher.todo = <<>>
    /\ patcher' = [patcher EXCEPT !.pc = "exited", !.output = "summary",
                                  !.status = 0]
    /\ UNCHANGED <<now, postsDir, manifestFile, scheduler>>

\* the patch process is gone
PatchExit ==
    /\ patcher.pc = "exited"
    /\ patcher' = IdlePatcher
    /\ UNCHANGED <<now, postsDir, manifestFile, scheduler>>

\* the maintenance scripts run by hand or by the workflow, in any order, as
\* posts are added day by day
NextSite ==
    \/ Tick(MinutesPerDay)
    \/ WritePost("cissp-guide")
    \/ GenerateManifest
    \/ \E apply \in BOOLEAN : PatchStart(apply)
    \/ PatchFile
    \/ PatchFinish
    \/ PatchExit

SpecSite == InitSite /\ [][NextSite]_vars

\* a set as a sequence, in some order
RECURSIVE SeqOfSet(_)
SeqOfSet(S) ==
    IF S = {} THEN <<>>
    ELSE LET x == CHOOSE y \in S : TRUE
         IN  <<x>> \o SeqOfSet(S \ {x})

\* the variations left unpublished in a state file late in the life of the
\* catalog: any single variation, or the first and the last of any group
LeftUnpublished ==
    {{t} : t \in EvergreenTitles} \cup
    {{VariationTitle(k[1], k[2], 0),
      VariationTitle(k[1], k[2], TOPIC_FRAMEWORKS[k[1]].groups[k[2]].n - 1)} :
        k \in GroupKeys}

\* published_posts when all of the catalog is published but the variations
\* left
PublishedAllBut ==
    [left \in LeftUnpublished |->
        SeqOfSet({get_content_hash(t) : t \in EvergreenTitles \ left})]

\* the states select_evergreen_topic is given: any rotation index, any group
\* index and any saved offset up to MaxOffset (the same for every category and
\* group), and all of the catalog published but the variations left
EvergreenStates ==
    {[DefaultState EXCEPT
         !.category_rotation = r,
         !.group_index = [c \in 1..NumCategories |-> gi],
         !.topic_index = [k \in GroupKeys |-> off],
         !.published_posts = PublishedAllBut[left],
         !.post_count = Len(PublishedAllBut[left])] :
        r \in 0..(NumCategories - 1), gi \in 0..2, off \in 0..MaxOffset,
        left \in LeftUnpublished}

InitEvergreen ==
    /\ now = 0
    /\ stateFile \in {save_state(st) : st \in EvergreenStates}
    /\ cacheFile = NoCacheFile
    /\ postFiles = {}
    /\ pc = [p \in Procs |-> "idle"]
    /\ args = [p \in Procs |-> NoArgs]
    /\ state = [p \in Procs |-> DefaultState]
    /\ live_data = [p \in Procs |-> NoCacheFile]
    /\ topic = [p \in Procs |-> NoTopic]
    /\ post = [p \in Procs |-> NoPost]
    /\ depth = [p \in Procs |-> 0]
    /\ responses = AllFeedsFail
    /\ postsDir = NoPostsDir
    /\ manifestFile = NoManifestFile
    /\ patcher = IdlePatcher

\* forced previews that draw an evergreen topic from the state file as it is
NextEvergreen ==
    \/ StartRun(1, TRUE, TRUE, FALSE)
    \/ GetFreshData(1, AllFeedsFail)
    \/ SelectNextTopic(1, FALSE, 1, 1)
    \/ SelectEvergreen(1)
    \/ GeneratePost(1)
    \/ Exit(1)

SpecEvergreen == InitEvergreen /\ [][NextEvergreen]_vars

\* forced previews; the first one fetches, any subset of the feeds failing,
\* and the later ones are served the cache
NextFeeds ==
    \/ StartRun(1, TRUE, TRUE, FALSE)
    \/ \E world \in FeedWorlds : GetFreshData(1, world)
    \/ SelectNextTopic(1, FALSE, 1, 1)
    \/ SelectEvergreen(1)
    \/ GeneratePost(1)
    \/ Exit(1)

SpecFeeds == Init /\ [][NextFeeds]_vars

\* sequential runs as cron starts them without --force, previews or not, any
\* draw, a failure at any step; the clock is read at the instants around every
\* 12-hour mark
NextUnforced ==
    \/ \E d \in {1, CACHE_MAX_AGE_HOURS * MinutesPerHour - 2} :
          NearMark(now + d) /\ Tick(d)
    \/ \E preview \in BOOLEAN :
          BelowMaxPosts /\ StartRun(1, preview, FALSE, FALSE)
    \/ RunSteps(1)
    \/ Crash(1)

SpecUnforced == Init /\ [][NextUnforced]_vars

\* the files after one more forced run at time 0 that published a dynamic
\* post: r is what select_dynamic_topic returned on the live data fetched
AfterTrendPost(before, live, r) ==
    [stateFile |->
        save_state(PublishedState(
            [r.state EXCEPT
                !.style_rotation = r.state.style_rotation + 1,
                !.structure_rotation = r.state.structure_rotation + 1],
            r.topic, 0)),
     cacheFile |-> live,
     postFiles |->
        save(before.postFiles,
             generate(r.topic, IntroStyleOf(r.state), StructureOf(r.state), 0))]

\* the m-th such run: it drew the first trend choice, and the market_update
\* template if it was the first run, news_reaction if not
AfterTrendRun(before, live, m) ==
    AfterTrendPost(before, live,
                   select_dynamic_topic(load_state(before.stateFile), live, 1,
                                        IF m = 1 THEN 3 ELSE 1, 0))

\* the files after m such runs, from no file at all: the m-th run fetched the
\* news day of the m-th keyword, where that keyword is the first one not
\* recently used
RECURSIVE TrendHistory(_)
TrendHistory(m) ==
    IF m = 0
    THEN [stateFile |-> NoStateFile, cacheFile |-> NoCacheFile, postFiles |-> {}]
    ELSE CHOOSE after \in {AfterTrendRun(before, live, m) :
                              before \in {TrendHistory(m - 1)},
                              live \in {FreshCache(TrendDay(m), 0)}} : TRUE

\* how many dynamic posts were published before the runs observed: none, one
\* fewer than the trends considered, or as many as recent topics are kept
TrendHistories == {0, TrendsConsidered - 1, RecentTopicsKept}

TrendFiles == [m \in TrendHistories |-> TrendHistory(m)]

InitTrends ==
    /\ now = 0
    /\ \E m \in TrendHistories :
          /\ stateFile = TrendFiles[m].stateFile
          /\ cacheFile = TrendFiles[m].cacheFile
          /\ postFiles = TrendFiles[m].postFiles
    /\ pc = [p \in Procs |-> "idle"]
    /\ args = [p \in Procs |-> NoArgs]
    /\ state = [p \in Procs |-> DefaultState]
    /\ live_data = [p \in Procs |-> NoCacheFile]
    /\ topic = [p \in Procs |-> NoTopic]
    /\ post = [p \in Procs |-> NoPost]
    /\ depth = [p \in Procs |-> 0]
    /\ responses = AllFeedsFail
    /\ postsDir = NoPostsDir
    /\ manifestFile = NoManifestFile
    /\ patcher = IdlePatcher

\* the runs observed have published fewer than MaxTrendPosts posts
BelowMaxTrendPosts ==
    \E m \in TrendHistories :
        load_state(stateFile).post_count \in m..(m + MaxTrendPosts - 1)

\* forced runs with --refresh on any of the news days, or with every feed
\* failing, in which random.random() falls under 0.30
NextTrends ==
    \/ BelowMaxTrendPosts /\ StartRun(1, FALSE, TRUE, TRUE)
    \/ \E world \in TrendWorlds \cup {AllFeedsFail} : GetFreshData(1, world)
    \/ \E pick \in 1..TrendsConsidered, tmpl \in 1..Len(DYNAMIC_TEMPLATES) :
          SelectNextTopic(1, TRUE, pick, tmpl)
    \/ SelectEvergreen(1)
    \/ GeneratePost(1)
    \/ SavePost(1)
    \/ SaveState(1)
    \/ Exit(1)

SpecTrends == InitTrends /\ [][NextTrends]_vars

\* ------------------------------------------------------------- properties
NoDuplicates(s) == \A i, j \in 1..Len(s) : s[i] = s[j] => i = j

IsPrefix(s, t) == Len(s) <= Len(t) /\ SubSeq(t, 1, Len(s)) = s

Published == load_state(stateFile).published_posts

\* C1: a topic returned by select_next_topic, dynamic or evergreen, has a
\* title hash that is not in the published_posts of the state it was
\* selected on
C1_SelectedTopicUnpublished ==
    \A p \in Procs :
        pc[p] = "generate" =>
            /\ topic[p].some
            /\ topic[p].title_hash = get_content_hash(topic[p].title)
            /\ topic[p].title_hash \notin Range(state[p].published_posts)

\* a dynamic topic was returned on a state that has published posts
C1_Witness ==
    /\ pc[1] = "generate"
    /\ topic[1].is_dynamic
    /\ \E i \in 1..Len(state[1].published_posts) :
          state[1].published_posts[i][1] = "dynamic"

\* C2: through any sequence of sequential runs the persisted published_posts
\* holds no hash twice, and every step leaves it as it was or appends to it
C2_PublishedAppendOnlyNoDuplicates ==
    [][/\ IsPrefix(Published, Published')
       /\ NoDuplicates(Published')]_vars

\* two posts are recorded
C2_Witness == Len(Published) >= 2

\* C3 as stated: no step of a preview run changes any file
C3_PreviewWritesNoFile ==
    [][args[1].preview => UNCHANGED <<stateFile, cacheFile, postFiles>>]_vars

\* C3 amended: a preview run writes neither the state file nor a post file;
\* the one file it may write is the data cache, in get_fresh_data, when the
\* cache is not served
C3_PreviewWritesOnlyCache ==
    [][args[1].preview =>
          /\ UNCHANGED <<stateFile, postFiles>>
          /\ cacheFile' # cacheFile =>
                /\ pc[1] = "fetch"
                /\ \/ ~cacheFile.exists
                   \/ args[1].refresh_data
                   \/ now - cacheFile.timestamp >= 720]_vars

\* a preview run has returned its post, after a fetch that wrote the cache
C3_Witness ==
    /\ pc[1] = "done"
    /\ args[1].preview
    /\ post[1].some
    /\ cacheFile.exists /\ cacheFile.timestamp = now
    /\ ~stateFile.exists

\* C4: the state file changes only in the last step of a run that selected a
\* topic, generated the post and saved the post file, so once per run at most;
\* every other step, a failure included, leaves it as it was
C4_StateSavedOnlyAtEnd ==
    [][stateFile' # stateFile =>
          /\ pc[1] = "save_state" /\ pc'[1] = "done"
          /\ ~args[1].preview
          /\ topic[1].some
          /\ post[1].some /\ post[1] \in postFiles
          /\ stateFile' = save_state(state'[1])]_vars

\* a run failed after its in-memory counters were advanced; the file's are not
C4_Witness ==
    /\ pc[1] = "failed"
    /\ stateFile.exists
    /\ state[1].category_rotation # stateFile.data.category_rotation
    /\ state[1].style_rotation # stateFile.data.style_rotation
    /\ state[1].published_posts = stateFile.data.published_posts

\* C5: without force, a run passes the gate when there is no last_post_date,
\* and otherwise exactly when two whole days (2880 minutes) have passed since
\* the midnight that starts last_post_date; nothing else decides it
C5_GateIsTwoWholeDays ==
    [][\A p \in Procs :
          pc[p] = "idle" /\ pc'[p] # "idle" /\ ~args'[p].force =>
              LET last == load_state(stateFile).last_post_date
              IN  /\ pc'[p] \in {"fetch", "not_due"}
                  /\ (pc'[p] = "fetch") <=>
                        (last = NoDate \/ now - 1440 * last >= 2880)]_vars

\* a run one minute short of two whole days after the midnight of the last
\* post was turned away
C5_Witness ==
    /\ pc[1] = "not_due"
    /\ now - 1440 * state[1].last_post_date = 2879

\* C6: a forced run goes on to fetch, select and generate whatever
\* last_post_date is; a run without force goes on only when
\* should_post_today holds
C6_ForceBypassesGate ==
    [][\A p \in Procs :
          pc[p] = "idle" /\ pc'[p] # "idle" =>
              /\ args'[p].force => pc'[p] = "fetch"
              /\ ~args'[p].force =>
                    /\ pc'[p] \in {"fetch", "not_due"}
                    /\ (pc'[p] = "fetch") <=>
                          should_post_today(load_state(stateFile), now)]_vars

\* a forced run has selected a topic on the day of the last post
C6_Witness ==
    /\ pc[1] = "generate"
    /\ args[1].force
    /\ topic[1].some
    /\ state[1].last_post_date = DateOf(now)

\* the category (position in TOPIC_FRAMEWORKS) of an evergreen title hash
CategoryOfHash(h) ==
    CHOOSE c \in 1..NumCategories :
        \E g \in 1..Len(TOPIC_FRAMEWORKS[c].groups) :
            TOPIC_FRAMEWORKS[c].groups[g].template = h[2]

\* every variation of the group is among the hashes
GroupExhausted(k, hashes) ==
    \A i \in 0..(TOPIC_FRAMEWORKS[k[1]].groups[k[2]].n - 1) :
        get_content_hash(VariationTitle(k[1], k[2], i)) \in hashes

\* C7 as stated: any 7 consecutive evergreen selections are from 7 distinct
\* categories
C7_SevenConsecutiveDistinct ==
    \A i \in 1..(Len(Published) - 6) :
        Cardinality({CategoryOfHash(Published[j]) : j \in i..(i + 6)}) = 7

\* C7 amended: 7 consecutive evergreen selections made while no topic group
\* of the catalog is used up are from 7 distinct categories, each the
\* cyclic successor of the one before
C7_SevenDistinctWhileNoGroupExhausted ==
    \A i \in 1..(Len(Published) - 6) :
        (\A k \in GroupKeys :
            ~GroupExhausted(k, Range(SubSeq(Published, 1, i + 5)))) =>
            /\ Cardinality({CategoryOfHash(Published[j]) : j \in i..(i + 6)}) = 7
            /\ \A j \in i..(i + 5) :
                  CategoryOfHash(Published[j + 1]) =
                      (CategoryOfHash(Published[j]) % 7) + 1

\* two full rounds of selections were made and no group is used up
C7_Witness ==
    /\ Len(Published) = 14
    /\ \A k \in GroupKeys : ~GroupExhausted(k, Range(Published))

\* C8: once every variation of every group is published, a call of
\* select_evergreen_topic returns no topic: it advances the rotation and
\* calls itself, and only the interpreter's recursion limit ends that
C8_ExhaustedCatalogRecursesForever ==
    [][\A p \in Procs :
          /\ pc[p] = "evergreen"
          /\ \A k \in GroupKeys :
                GroupExhausted(k, Range(state[p].published_posts))
          => /\ ~topic'[p].some
             /\ pc'[p] \in {"evergreen", "failed"}
             /\ pc'[p] = "failed" => depth[p] >= RecursionLimit
             /\ pc'[p] = "evergreen" =>
                   /\ depth'[p] = depth[p] + 1
                   /\ state'[p].category_rotation # state[p].category_rotation]_vars

\* with the whole catalog published, the calls have gone round the categories
C8_Witness ==
    /\ pc[1] = "evergreen"
    /\ depth[1] > NumCategories
    /\ Cardinality(Range(state[1].published_posts)) = Cardinality(EvergreenTitles)

\* C9: without a forced refresh, an existing cache is served, and the file
\* left alone, exactly when it is read less than 12 hours (720 minutes)
\* after it was written; from 12 hours on it is fetched anew
C9_CacheServedUnderTwelveHours ==
    [][\A p \in Procs :
          /\ pc[p] = "fetch" /\ pc'[p] = "select"
          /\ cacheFile.exists /\ ~args[p].refresh_data
          => /\ (cacheFile' = cacheFile) <=> (now - cacheFile.timestamp < 720)
             /\ live_data'[p] = cacheFile'
             /\ cacheFile' # cacheFile => cacheFile'.timestamp = now]_vars

\* a cache written 11 hours 59 minutes earlier was served
C9_Witness ==
    /\ pc[1] = "select"
    /\ ~args[1].refresh_data
    /\ live_data[1] = cacheFile
    /\ now - live_data[1].timestamp = 719

ItemsFrom(news, f) ==
    LET FromF(x) == x.source = f
        got == SelectSeq(news, FromF)
    IN  [i \in 1..Len(got) |-> Item(got[i].title, got[i].text)]

\* C11: whichever feeds fail, a fetch completes and the run goes on to the
\* selection; the news list holds the items in feed order, every feed that
\* answered contributes the items fetch_rss_feed keeps of it (its first ten)
\* under its category, and every feed that failed contributes none
C11_FailedFeedsContributeNothing ==
    [][\A p \in Procs :
          pc[p] = "fetch" /\ pc'[p] # "fetch" =>
              /\ pc'[p] = "select"
              /\ ~CacheValid(cacheFile, args[p].refresh_data, now) =>
                    LET news == live_data'[p].news
                    IN  /\ \A i, j \in 1..Len(news) :
                              i < j => news[i].source <= news[j].source
                        /\ \A i \in 1..Len(news) :
                              news[i].category = RSS_FEEDS[news[i].source]
                        /\ \A f \in Feeds :
                              ItemsFrom(news, f) =
                                  IF responses'[f].ok
                                  THEN Take(responses'[f].items, FeedItemsKept)
                                  ELSE <<>>]_vars

\* a fetch where the second and the fifth feed failed and the others answered
\* has returned the items of the first, third and sixth feed, and the run is
\* at the selection
C11_Witness ==
    /\ pc[1] = "select"
    /\ ~responses[2].ok /\ responses[2].items # <<>>
    /\ ~responses[5].ok
    /\ \A f \in Feeds \ {2, 5} : responses[f].ok
    /\ Len(live_data[1].news) = FeedItemsKept + 5
    /\ ItemsFrom(live_data[1].news, 3) = FeedContent[3]
    /\ ItemsFrom(live_data[1].news, 2) = <<>>

\* the keys of DYNAMIC_TEMPLATES
DynamicFormats == {DYNAMIC_TEMPLATES[i].key : i \in 1..Len(DYNAMIC_TEMPLATES)}

\* the title-cased forms of the keywords of a trending list
TitleCased(trending) == {TitleCase(e[1]) : e \in Range(trending)}

\* C12 as stated: every dynamic topic selected from a non-empty trending list
\* has a non-empty title in one of the four formats that contains the
\* title-cased form of a trending keyword, whichever template is drawn
C12_DynamicTitleContainsKeyword ==
    \A p \in Procs :
        topic[p].some /\ topic[p].is_dynamic =>
            /\ live_data[p].trending # <<>>
            /\ topic[p].title # NoTitle
            /\ topic[p].title[2] \in DynamicFormats
            /\ topic[p].title[3] \in TitleCased(live_data[p].trending)

\* C12, amended: the title is non-empty and in one of the four formats; in
\* the formats news_reaction, trending_skill and threat_career it contains
\* the title-cased form of the trending keyword that was drawn, and in the
\* format market_update it contains the current month and no keyword
C12_DynamicTitleKeywordOrMonth ==
    \A p \in Procs :
        topic[p].some /\ topic[p].is_dynamic =>
            /\ live_data[p].trending # <<>>
            /\ topic[p].title # NoTitle
            /\ topic[p].title[2] \in DynamicFormats
            /\ IF topic[p].title[2] = "market_update"
               THEN topic[p].title[3] = "" /\ topic[p].title[4] = MonthOf(now)
               ELSE /\ topic[p].title[3] = TitleCase(topic[p].base_topic)
                    /\ topic[p].title[3] \in TitleCased(live_data[p].trending)

\* a dynamic topic was selected in the market_update format from the trending
\* list [ransomware, AI]
C12_Witness ==
    /\ topic[1].some /\ topic[1].is_dynamic
    /\ topic[1].title[2] = "market_update"
    /\ TitleCased(live_data[1].trending) = {"Ransomware", "Ai"}

\* process p has loaded the state and not saved it, and the state file still
\* holds what p loaded
LoadedCurrent(p) ==
    /\ pc[p] \in Running
    /\ state[p].published_posts = load_state(stateFile).published_posts
    /\ state[p].last_post_date = load_state(stateFile).last_post_date
    /\ state[p].post_count = load_state(stateFile).post_count

\* process q has saved the state, and had loaded the one process p holds
SavedFromSameLoad(q, p) ==
    /\ pc[q] = "done" /\ ~args[q].preview
    /\ stateFile = save_state(state[q])
    /\ state[q].published_posts =
           Append(state[p].published_posts, topic[q].title_hash)
    /\ state[q].post_count = state[p].post_count + 1

\* C13: overlapping runs are not kept apart.  A run that loads the state
\* while another run holds the same state unsaved passes the gate as the other
\* did; and when both have loaded the same state, the second to save leaves a
\* state file with its own hash only added to what was loaded and post_count
\* raised by one, though both post files are written: the first saver's hash
\* is gone from the file unless both published the same topic
C13_OverlappingRunsLastWriterWins ==
    [][\A p, q \in Procs :
          p # q =>
            /\ (/\ LoadedCurrent(p) /\ pc[q] = "idle" /\ pc'[q] # "idle"
                /\ args'[q].force = args[p].force)
                   => pc'[q] = "fetch"
            /\ (/\ pc[p] = "save_state" /\ pc'[p] = "done"
                /\ SavedFromSameLoad(q, p))
                   => /\ stateFile'.data.published_posts =
                            Append(state[p].published_posts, topic[p].title_hash)
                      /\ stateFile'.data.post_count = state[p].post_count + 1
                      /\ stateFile'.data.post_count = stateFile.data.post_count
                      /\ {post[p], post[q]} \subseteq postFiles'
                         \/ post[p].filepath = post[q].filepath
                      /\ topic[q].title_hash # topic[p].title_hash
                            => topic[q].title_hash \notin
                                   Range(stateFile'.data.published_posts)]_vars

\* both processes loaded the empty state, published different topics and
\* saved; the state file holds the hash of process 2 only and post_count 1,
\* and both post files are there
C13_Witness ==
    /\ pc[1] = "done" /\ pc[2] = "done"
    /\ ~args[1].preview /\ ~args[2].preview
    /\ topic[1].title_hash # topic[2].title_hash
    /\ stateFile = save_state(state[2])
    /\ stateFile.data.published_posts = <<topic[2].title_hash>>
    /\ stateFile.data.post_count = 1
    /\ {post[1], post[2]} \subseteq postFiles

\* the manifests generate_manifest can write over the files as they are
ManifestsOfFiles == {scan_posts(postsDir, l) : l \in Listings(postsDir)}

\* C14: when generate_manifest runs over files of which the manifest on disk
\* was generated, the manifest it writes has the same count and the same
\* posts in the same order, with the same metadata and featured flags; only
\* generated may differ
C14_ManifestRebuildIdempotent ==
    [][(/\ manifestFile.exists /\ postsDir.exists
        /\ manifestFile.posts \in ManifestsOfFiles
        /\ postsDir'.files = postsDir.files
        /\ manifestFile' # manifestFile)
          => /\ manifestFile'.exists
             /\ manifestFile'.count = manifestFile.count
             /\ manifestFile'.posts = manifestFile.posts
             /\ manifestFile'.generated # manifestFile.generated]_vars

\* a manifest of two posts of the same day, generated on a later day than
\* the posts were written and holding what a scan of the files yields
C14_Witness ==
    /\ manifestFile.exists
    /\ manifestFile.generated > 0
    /\ manifestFile.count = 2
    /\ manifestFile.posts[1].date = manifestFile.posts[2].date
    /\ manifestFile.posts \in ManifestsOfFiles

\* C15: in every manifest written, the posts are in order of date, newest
\* first, count is the number of posts, and if there is a post the first one
\* is featured, no other is, and no post has a newer date than it
C15_ManifestNewestFirstOneFeatured ==
    manifestFile.exists =>
        LET posts == manifestFile.posts
        IN  /\ \A i, j \in 1..Len(posts) : i < j => posts[i].date >= posts[j].date
            /\ manifestFile.count = Len(posts)
            /\ \A i \in 1..Len(posts) : posts[i].featured <=> i = 1
            /\ \A i \in 1..Len(posts) : posts[1].date >= posts[i].date

\* a manifest of two posts of different days, where the newer post has the
\* path that sorts first
C15_Witness ==
    /\ manifestFile.exists
    /\ manifestFile.count = 2
    /\ manifestFile.posts[1].date > manifestFile.posts[2].date
    /\ PathKey(manifestFile.posts[1].filepath)
           < PathKey(manifestFile.posts[2].filepath)
    /\ manifestFile.posts[1].featured /\ ~manifestFile.posts[2].featured

\* the paths of the files whose content a step changed
Rewritten == {f.path : f \in postsDir'.files \ postsDir.files}

\* the paths a step of the patch script reported
NewlyReported ==
    {patcher'.reported[i][1] :
        i \in (Len(patcher.reported) + 1)..Len(patcher'.reported)}

\* C16: a turn of the loop of patch_posts.py reports the file iff a rule
\* changes its text; in a dry run it changes no file, and with --apply the
\* files it rewrites are the files it reports
C16_DryRunWritesNothingApplyWritesReported ==
    [][(patcher.pc = "patching" /\ patcher' # patcher /\ patcher.todo # <<>>)
          => LET file == FileAt(postsDir, Head(patcher.todo))
             IN  /\ NewlyReported =
                        IF file.html.readable /\ PatchedText(file.html) # file.html
                        THEN {file.path} ELSE {}
                 /\ patcher.dry_run => postsDir' = postsDir
                 /\ ~patcher.dry_run => Rewritten = NewlyReported
                 /\ manifestFile' = manifestFile]_vars

\* a dry run has reported a generated page, which still has every text the
\* rules look for
C16_Witness ==
    /\ patcher.pc = "patching"
    /\ patcher.dry_run
    /\ patcher.reported # <<>>
    /\ \E f \in postsDir.files :
          /\ f.path = patcher.reported[1][1]
          /\ Len(PatchChanges(f.html)) = 5

\* C17: started while posts/ does not exist, patch_posts.py in either mode
\* reports the error and exits with status 1, having read and written nothing
C17_MissingPostsDirIsFatal ==
    [][(patcher.pc = "idle" /\ patcher'.pc # "idle" /\ ~postsDir.exists)
          => /\ patcher'.pc = "exited"
             /\ patcher'.output = "error"
             /\ patcher'.status # 0
             /\ patcher'.read = {}
             /\ patcher'.reported = <<>>
             /\ postsDir' = postsDir
             /\ manifestFile' = manifestFile]_vars

\* patch_posts.py --apply has exited with status 1 on the missing posts/
C17_Witness ==
    /\ ~postsDir.exists
    /\ patcher.pc = "exited"
    /\ ~patcher.dry_run
    /\ patcher.output = "error"
    /\ patcher.status = 1

\* the most groups a category has
MaxGroups ==
    CHOOSE m \in 1..Cardinality(GroupKeys) :
        /\ \A c \in 1..NumCategories : Len(TOPIC_FRAMEWORKS[c].groups) <= m
        /\ \E c \in 1..NumCategories : Len(TOPIC_FRAMEWORKS[c].groups) = m

\* the hashes of the catalog's titles
CatalogHashes == {get_content_hash(t) : t \in EvergreenTitles}

\* some variation of the catalog is not among the published hashes
SomeUnpublished(hashes) ==
    LET published == Range(hashes)
    IN  \E h \in CatalogHashes : h \notin published

\* C18: while some variation of the catalog is unpublished, the search of
\* select_evergreen_topic does not fail: it takes at most one call per
\* category and group round (NumCategories * MaxGroups calls) and the topic it
\* returns is a catalog variation that is not published
C18_SearchFindsUnpublishedTopic ==
    \A p \in Procs :
        SomeUnpublished(state[p].published_posts) =>
            /\ pc[p] # "failed"
            /\ depth[p] <= NumCategories * MaxGroups
            /\ (pc[p] = "generate" /\ ~topic[p].is_dynamic) =>
                  /\ topic[p].title \in EvergreenTitles
                  /\ topic[p].title_hash \notin Range(state[p].published_posts)

\* a search that went through every category at least once has returned the
\* one variation that was left
C18_Witness ==
    /\ pc[1] = "generate"
    /\ depth[1] > 2 * NumCategories
    /\ topic[1].title \in EvergreenTitles
    /\ CatalogHashes \ {topic[1].title_hash} \subseteq
           Range(state[1].published_posts)
    /\ topic[1].title_hash \notin Range(state[1].published_posts)

\* C19 as stated: when the group examined is exhausted, the retry examines
\* the category that follows the one just tried, skipping none
C19_RetryExaminesNextCategory ==
    [][\A p \in Procs :
          (pc[p] = "evergreen" /\ pc'[p] = "evergreen"
           /\ depth'[p] = depth[p] + 1)
             => RotationCategory(state'[p]) =
                    (RotationCategory(state[p]) % NumCategories) + 1]_vars

\* the group key of a template
KeyOfTemplate(template) ==
    CHOOSE k \in GroupKeys : TOPIC_FRAMEWORKS[k[1]].groups[k[2]].template = template

\* C20: a call of select_evergreen_topic scans the group it examines from the
\* saved offset on, cyclically, over each variation once; it returns the first
\* variation of the scan that is unpublished and saves that variation's index
\* plus one as the offset of the group; if every variation is published it
\* returns none and leaves every offset as it was
C20_CyclicScanFromSavedOffset ==
    [][\A p \in Procs :
          (pc[p] = "evergreen" /\ depth'[p] = depth[p] + 1) =>
             LET c == RotationCategory(state[p])
                 g == RotationGroup(state[p])
                 n == TOPIC_FRAMEWORKS[c].groups[g].n
                 start == state[p].topic_index[<<c, g>>]
                 IsPublished(i) ==
                     get_content_hash(VariationTitle(c, g, i))
                         \in Range(state[p].published_posts)
             IN  IF pc'[p] = "generate"
                 THEN \E a \in 0..(n - 1) :
                        LET idx == (start + a) % n
                        IN  /\ topic'[p].title = VariationTitle(c, g, idx)
                            /\ ~IsPublished(idx)
                            /\ \A b \in 0..(a - 1) : IsPublished((start + b) % n)
                            /\ state'[p].topic_index =
                                  [state[p].topic_index EXCEPT ![<<c, g>>] = idx + 1]
                 ELSE /\ \A i \in 0..(n - 1) : IsPublished(i)
                      /\ ~topic'[p].some
                      /\ state'[p].topic_index = state[p].topic_index]_vars

\* a scan that started past an unpublished variation, went on to the end of
\* the group, wrapped around and returned that variation; the offset is now
\* its index plus one
C20_Witness ==
    /\ pc[1] = "generate" /\ ~topic[1].is_dynamic
    /\ LET k == KeyOfTemplate(topic[1].base_topic)
           start == load_state(stateFile).topic_index[k]
           idx == topic[1].title[4]
       IN  /\ start < TOPIC_FRAMEWORKS[k[1]].groups[k[2]].n
           /\ idx < start
           /\ state[1].topic_index[k] = idx + 1

\* the number of topic groups of a category
GroupsOf(c) == Len(TOPIC_FRAMEWORKS[c].groups)

\* C21: every call of select_evergreen_topic examines the group of its
\* category that the category's group index points at and advances that index
\* by one, cyclically, whether or not the call returns a topic: the next call
\* on the same category examines the group that follows, the first one after
\* the last; the group index of no other category changes
C21_GroupIndexAdvancesOnEveryVisit ==
    [][\A p \in Procs :
          (pc[p] = "evergreen" /\ depth'[p] = depth[p] + 1) =>
             LET c == RotationCategory(state[p])
                 g == RotationGroup(state[p])
                 next == (state'[p].group_index[c] % GroupsOf(c)) + 1
             IN  /\ g = (state[p].group_index[c] % GroupsOf(c)) + 1
                 /\ next = (g % GroupsOf(c)) + 1
                 /\ topic'[p].some =>
                        topic'[p].base_topic = TOPIC_FRAMEWORKS[c].groups[g].template
                 /\ \A d \in 1..NumCategories \ {c} :
                        state'[p].group_index[d] = state[p].group_index[d]]_vars

\* two calls of one search visited job-search, the category of three groups:
\* the first one and, every second category having been tried in between, the
\* eighth one; the group index was at the last group, neither call returned a
\* topic, and the index has advanced twice all the same, past the last group
\* to the first
C21_Witness ==
    /\ pc[1] = "evergreen" /\ depth[1] = NumCategories + 1 /\ ~topic[1].some
    /\ load_state(stateFile).category_rotation % NumCategories = 4
    /\ GroupsOf(5) = 3
    /\ load_state(stateFile).group_index[5] = 2
    /\ state[1].group_index[5] = 1

\* C22 as stated: no call of select_evergreen_topic leaves category_rotation
\* smaller than it found it
C22_RotationIndexNeverDecreases ==
    [][\A p \in Procs :
          (pc[p] = "evergreen" /\ depth'[p] = depth[p] + 1) =>
             state'[p].category_rotation >= state[p].category_rotation]_vars

\* C22: a call of select_evergreen_topic stores the index it read, reduced
\* modulo the number of categories, plus one, and one more when it found the
\* group exhausted; the stored index therefore never exceeds the number of
\* categories plus one, in memory or in the state file, and it falls when the
\* rotation passes the last category
C22_RotationIndexStoredReduced ==
    [][/\ \A p \in Procs :
            (pc[p] = "evergreen" /\ depth'[p] = depth[p] + 1) =>
               state'[p].category_rotation =
                  (state[p].category_rotation % NumCategories) + 1
                     + (IF topic'[p].some THEN 0 ELSE 1)
       /\ load_state(stateFile').category_rotation \in 0..(NumCategories + 1)]_vars

\* a call read the index of the last category's successor from the state
\* file and returned a topic of the first category; it stored 1
C22_Witness ==
    /\ pc[1] = "generate" /\ depth[1] = 1
    /\ load_state(stateFile).category_rotation = NumCategories
    /\ topic[1].category = TOPIC_FRAMEWORKS[1].category
    /\ state[1].category_rotation = 1

\* C23: in sequential runs without --force, a run that saves the state saves
\* a last_post_date at least two calendar days after the one it loaded, and
\* a run started on the day of the last post or on the day after it goes no
\* further than the gate: it writes no post file and no state
C23_UnforcedPostsTwoDaysApart ==
    [][/\ (stateFile' # stateFile /\ stateFile.exists) =>
            load_state(stateFile').last_post_date >=
                load_state(stateFile).last_post_date + PostIntervalDays
       /\ \A p \in Procs :
            (pc[p] = "idle" /\ pc'[p] # "idle" /\ stateFile.exists
             /\ DateOf(now) < load_state(stateFile).last_post_date + PostIntervalDays)
               => pc'[p] = "not_due"
       /\ \A p \in Procs :
            pc[p] = "not_due" =>
               /\ pc'[p] \in {"not_due", "idle"}
               /\ UNCHANGED <<stateFile, postFiles>>]_vars

\* a second post was published at the first instant of the second day after
\* the first post's day
C23_Witness ==
    /\ Len(Published) = 2
    /\ load_state(stateFile).last_post_date = PostIntervalDays
    /\ now = Midnight(PostIntervalDays)
    /\ pc[1] = "done"

\* C24: select_next_topic, its draw under 0.30, returns a dynamic topic only
\* from live data whose trending list is not empty; with an empty trending
\* list it makes no dynamic attempt (the state is left as it was) and goes to
\* the evergreen selection; a dynamic attempt that yields nothing leaves the
\* state as it was and goes to the evergreen selection in the same call; the
\* topic the evergreen selection returns is not dynamic
C24_DynamicOnlyWithTrendsElseEvergreen ==
    [][\A p \in Procs :
          /\ (pc[p] = "select" /\ pc'[p] # "select") =>
                /\ pc'[p] \in {"generate", "evergreen"}
                /\ pc'[p] = "generate" =>
                      /\ live_data[p].trending # <<>>
                      /\ topic'[p].some /\ topic'[p].is_dynamic
                /\ live_data[p].trending = <<>> => pc'[p] = "evergreen"
                /\ pc'[p] = "evergreen" =>
                      /\ state'[p] = state[p]
                      /\ ~topic'[p].some
          /\ (pc[p] = "evergreen" /\ pc'[p] = "generate") =>
                /\ topic'[p].some /\ ~topic'[p].is_dynamic
                /\ state'[p].recent_topics = state[p].recent_topics]_vars

\* a run whose draw fell under 0.30 had a trending keyword that was not
\* recently used, but the title it made of it was published already; the same
\* call returned an evergreen topic
C24_Witness ==
    /\ pc[1] = "generate"
    /\ topic[1].some /\ ~topic[1].is_dynamic
    /\ live_data[1].trending # <<>>
    /\ AvailableTrends(state[1], live_data[1]) # <<>>
    /\ state[1].recent_topics = load_state(stateFile).recent_topics

\* the lower-cased recent topics of a state
RecentLower(st) == {Lower(r) : r \in Range(st.recent_topics)}

\* C25 as stated: the keyword of a dynamic topic is one of the first five
\* entries of the trending list and is not, case-insensitively, a recent topic
\* of the state it was selected on
C25_ChosenAmongTopFiveTrending ==
    [][\A p \in Procs :
          (pc[p] = "select" /\ pc'[p] = "generate") =>
             /\ \E i \in 1..Min(TrendsConsidered, Len(live_data[p].trending)) :
                   live_data[p].trending[i][1] = topic'[p].base_topic
             /\ Lower(topic'[p].base_topic) \notin RecentLower(state[p])]_vars

\* C25: the keyword of a dynamic topic is an entry of the trending list that
\* is not, case-insensitively, a recent topic of the state it was selected on,
\* and fewer than five entries that are not recent topics rank before it
C25_ChosenAmongFirstFiveNotRecent ==
    [][\A p \in Procs :
          (pc[p] = "select" /\ pc'[p] = "generate") =>
             LET trending == live_data[p].trending
             IN  /\ Lower(topic'[p].base_topic) \notin RecentLower(state[p])
                 /\ \E i \in 1..Len(trending) :
                       /\ trending[i][1] = topic'[p].base_topic
                       /\ Cardinality({j \in 1..(i - 1) :
                              Lower(trending[j][1]) \notin RecentLower(state[p])})
                             < TrendsConsidered]_vars

\* with four of the five highest-ranked keywords recently used, the run drew
\* the keyword that ranks sixth in the trending list
C25_Witness ==
    /\ pc[1] = "generate" /\ topic[1].is_dynamic
    /\ Len(live_data[1].trending) > TrendsConsidered
    /\ topic[1].base_topic = live_data[1].trending[TrendsConsidered + 1][1]
    /\ Cardinality({i \in 1..TrendsConsidered :
           Lower(live_data[1].trending[i][1])
               \in RecentLower(load_state(stateFile))}) = TrendsConsidered - 1

\* C26: recent_topics never has more than RecentTopicsKept entries, in memory
\* or in the state file; a dynamic selection that returns a topic puts its
\* keyword last and keeps the keywords before it in their order, dropping the
\* oldest one if the list was full; a dynamic attempt that returns nothing and
\* the evergreen selection leave the list as it was
C26_RecentTopicsBoundedInOrder ==
    [][/\ Len(load_state(stateFile').recent_topics) <= RecentTopicsKept
       /\ \A p \in Procs :
            LET old == state[p].recent_topics
                new == state'[p].recent_topics
                dropped == Len(old) + 1 - Len(new)
            IN  /\ Len(new) <= RecentTopicsKept
                /\ (pc[p] = "select" /\ pc'[p] = "generate") =>
                      /\ Len(new) = Min(Len(old) + 1, RecentTopicsKept)
                      /\ new[Len(new)] = topic'[p].base_topic
                      /\ \A i \in 1..(Len(new) - 1) : new[i] = old[i + dropped]
                /\ (pc[p] \in {"select", "evergreen"}
                    /\ pc'[p] \in {"evergreen", "failed"}) => new = old
                /\ (pc[p] = "evergreen" /\ pc'[p] = "generate") => new = old]_vars

\* a dynamic topic was returned on a state whose list was full: the oldest
\* keyword is gone, the others have moved up and the new one is last
C26_Witness ==
    /\ pc[1] = "generate" /\ topic[1].is_dynamic
    /\ Len(load_state(stateFile).recent_topics) = RecentTopicsKept
    /\ state[1].recent_topics =
          Append(Tail(load_state(stateFile).recent_topics), topic[1].base_topic)

\* the post file of the i-th published post
PostFileOf(i) ==
    CHOOSE f \in postFiles : get_content_hash(f.title) = Published[i]

\* C27: a run takes the intro style and the content structure its two
\* counters point at, modulo the number of styles and of structures, and
\* advances both counters by one; so in forced runs back to back from the
\* default state the i-th published post has the style and the structure at
\* position i of their cycles: consecutive posts go through the five intro
\* styles in order, each once before any repeats
C27_StylesByRotation ==
    [][/\ \A p \in Procs :
            (pc[p] = "generate" /\ pc'[p] # "generate") =>
               /\ post'[p].intro_style =
                     INTRO_STYLES[(state[p].style_rotation % Len(INTRO_STYLES)) + 1]
               /\ post'[p].structure =
                     CONTENT_STRUCTURES[(state[p].structure_rotation
                                            % Len(CONTENT_STRUCTURES)) + 1]
               /\ state'[p].style_rotation = state[p].style_rotation + 1
               /\ state'[p].structure_rotation = state[p].structure_rotation + 1
       /\ \A i \in 1..Len(load_state(stateFile').published_posts) :
            \E f \in postFiles' :
               /\ get_content_hash(f.title) =
                     load_state(stateFile').published_posts[i]
               /\ f.intro_style = INTRO_STYLES[((i - 1) % Len(INTRO_STYLES)) + 1]
               /\ f.structure =
                     CONTENT_STRUCTURES[((i - 1) % Len(CONTENT_STRUCTURES)) + 1]]_vars

\* seven posts are published: the sixth has the first intro style again and
\* the last content structure, the seventh the first structure again
C27_Witness ==
    /\ Len(Published) = Len(CONTENT_STRUCTURES) + 1
    /\ \A i \in 1..Len(INTRO_STYLES) :
          PostFileOf(i).intro_style = INTRO_STYLES[i]
    /\ PostFileOf(Len(INTRO_STYLES) + 1).intro_style = INTRO_STYLES[1]
    /\ PostFileOf(Len(CONTENT_STRUCTURES)).structure =
          CONTENT_STRUCTURES[Len(CONTENT_STRUCTURES)]
    /\ PostFileOf(Len(CONTENT_STRUCTURES) + 1).structure = CONTENT_STRUCTURES[1]

\* the title hashes of the post files
FileHashes(files) == {get_content_hash(f.title) : f \in files}

\* C28: the state file is written only by a run whose post file is already
\* written, and the step that writes it writes no post file; so at every
\* moment, also after a run that was interrupted, every hash in the persisted
\* published_posts is the hash of the title of a post file
C28_RecordedHashHasPostFile ==
    [][/\ stateFile' # stateFile =>
            /\ postFiles' = postFiles
            /\ \E p \in Procs :
                  /\ pc[p] = "save_state"
                  /\ post[p] \in postFiles
                  /\ get_content_hash(post[p].title) =
                        load_state(stateFile').published_posts[
                            Len(load_state(stateFile').published_posts)]
       /\ Range(load_state(stateFile').published_posts)
             \subseteq FileHashes(postFiles')]_vars

\* the reverse fails: a post file exists whose hash is not recorded (the run
\* that wrote it ended before the state was saved), and a later run has
\* selected that title again
C28_Witness ==
    /\ pc[1] = "generate"
    /\ topic[1].title_hash \in FileHashes(postFiles)
    /\ topic[1].title_hash \notin Range(Published)

\* C29: a run started without force while no post is due returns at once:
\* from its start to its exit no feed is fetched, the cache file is neither
\* read nor written, no topic is selected, no post is built or written, and
\* the state file stays as it was
C29_NotDueRunHasNoEffect ==
    [][\A p \in Procs :
          \/ /\ pc[p] = "idle"
             /\ pc'[p] # "idle"
             /\ ~args'[p].force
             /\ ~should_post_today(load_state(stateFile), now)
          \/ pc[p] = "not_due"
          => /\ pc[p] = "idle" => pc'[p] = "not_due"
             /\ pc'[p] \in {"not_due", "idle"}
             /\ UNCHANGED <<stateFile, cacheFile, postFiles, responses>>
             /\ live_data'[p] = NoCacheFile
             /\ topic'[p] = NoTopic
             /\ post'[p] = NoPost]_vars

C29_Witness ==
    /\ pc[1] = "not_due"
    /\ ~args[1].force
    /\ args[1].refresh_data
    /\ ~args[1].preview
    /\ stateFile # NoStateFile
    /\ cacheFile # NoCacheFile
    /\ postFiles # {}

\* the four counters of a state agree
CountersAgree(st) ==
    /\ st.post_count = Len(st.published_posts)
    /\ st.post_count = st.style_rotation
    /\ st.post_count = st.structure_rotation

\* C30: from the default state on, the persisted post_count, the length of
\* published_posts, style_rotation and structure_rotation are equal; they
\* change only in the step that records a published post, and then each
\* grows by exactly one
C30_CountersAdvanceTogether ==
    [][/\ CountersAgree(load_state(stateFile))
       /\ CountersAgree(load_state(stateFile'))
       /\ load_state(stateFile').post_count =
             load_state(stateFile).post_count +
               (IF \E p \in Procs : pc[p] = "save_state" /\ pc'[p] = "done"
                THEN 1 ELSE 0)]_vars

C30_Witness ==
    /\ load_state(stateFile).post_count = 1
    /\ load_state(stateFile).style_rotation = 1
    /\ load_state(stateFile).structure_rotation = 1
    /\ Len(load_state(stateFile).published_posts) = 1
    /\ pc[1] = "done"
    /\ args[1].preview
    /\ state[1].style_rotation = 2
    /\ state[1].structure_rotation = 2

====
